---- MODULE Spec2Model ----
(***************************************************************************)
(* A model of the email-intelligence pipeline: incremental metadata        *)
(* ingestion with its checkpoint, the labeling passes (cluster engine and  *)
(* per-message labeler), the message->label assignment writer, the         *)
(* label-push outbox and its drains.                                       *)
(*                                                                         *)
(* Every database statement of the code runs in its own transaction        *)
(* (`with engine.begin()`), so one action of the model is one transaction  *)
(* (or one provider call) and concurrent workers interleave between them.  *)
(***************************************************************************)
EXTENDS Integers, Sequences, FiniteSets, TLC

\* ------------------------------------------------------------------ bounds

\* Messages the provider holds (ingestion model).
MaxMsgs == 3

\* ------------------------------------------------------------ common values

\* SQL NULL / Python None for integer-valued cells.
NULL == -1

VARIABLES
    \* pipeline_kv["last_ingested_internal_date"], NULL when the key is absent
    checkpoint,
    \* gmail ids with a row in email_message written by insert_email
    store,
    \* gmail ids with a point in the vector index
    vindex,
    \* one record per ingestion worker: the locals of ingest_metadata
    run,
    \* email_message classification columns, per gmail id:
    \* [category, subcategory, cluster_id, label_version]
    email,
    \* taxonomy_label rows of level 2, as <<parent name, name>>
    tier2,
    \* message_taxonomy_label rows, as <<message, label>>; PRIMARY KEY (both)
    assign,
    \* label_push_outbox rows in id (= created_at) order:
    \* [msg, reason, proc (processed_at IS NOT NULL), err (error IS NOT NULL)]
    outbox,
    \* the labels each message carries at the provider
    gmail,
    \* one record per labeling worker: the locals of cluster_and_label /
    \* label_unlabelled_individual
    lab,
    \* one record per label-push drain: the locals of start_gmail_push_outbox /
    \* _push_label_outbox
    drain,
    \* the in-memory job registry (_jobs of app/api/jobs.py), per job id:
    \* [type, state, left (items the task has still to handle), failed,
    \* outcome (how the task ended: "returned", "raised", "none" so far)]
    jobs,
    \* email_message.archived_at IS NOT NULL, per message
    archived,
    \* archive_push_outbox in id order: rows [msg, proc, err]
    aoutbox,
    \* taxonomy_label.retention_days per label (NULL: not set)
    retention,
    \* the retention default of pipeline_kv (NULL: key not set)
    kvRetention,
    \* one record per archive-push worker: the locals of
    \* start_gmail_archive_push / _push_archive_outbox
    adrain,
    \* what the last planning run was given and returned:
    \* [tick (flips with every run), now, max_rows]
    lastPlan,
    \* _subscribers[job_id] of app/api/jobs.py: the queues subscribed to the job
    subscribers,
    \* the pending events of each subscriber queue, oldest first
    queues,
    \* the holder of _lock and of _sub_lock ("none": free)
    lock,
    subLock,
    \* the job thread inside _set_job / _broadcast:
    \* [pc, kind (the update being made), todo (subs still to handle), payload]
    pub,
    \* one record per SSE client: [pc (its position in job_events / gen),
    \* got (the job state of the last event it was sent)]
    sub,
    \* the locals of OllamaLabeler.label for the decision under way:
    \* [pc, calls (model calls made), strict (the stricter prompt is in use),
    \* raw (the last response), reasons (per attempt, why the subcategory was
    \* rejected, "none" when it was not), result]
    dec,
    \* the rows of email_cluster: [id, seed] (id is the primary key,
    \* seed_gmail_message_id is UNIQUE)
    clusters,
    \* the settings the labeling runs are started with:
    \* [threshold (hundredths), version]
    settings,
    \* the events of the Google calendar: [id, uid (the iCalUID)]
    calendar,
    \* the calendar columns of message_event_metadata, per message:
    \* [uid ("": NULL), event (0: NULL), published]
    eventRow,
    \* one record per POST /{message_id}/calendar/publish request under way:
    \* [pc, msg, uid, found (the event id the list returned, 0: none),
    \* created (the event id the insert returned)]
    req,
    \* the last automatic choice of a labeling mode: [by ("label_auto" or
    \* "maintenance"), total (the unlabelled count read), threshold, mode]
    auto,
    \* the maintenance run: [pc, steps (the steps completed, in order),
    \* threshold, cutoff]
    maint,
    \* the last _sample_count call: [size, count]
    samp,
    \* the last subject normalization: [prefixes, bare, out, outBare]
    subj,
    \* the last two payment fingerprints: [a, b, fa, fb]
    pay,
    \* the names of the labels of the mailbox at the provider
    mailbox,
    \* the archive worker's marker label: [pc, name (the label whose id the
    \* worker holds), todo (the pending messages), adds (per message, the
    \* names of the labels added)]
    marker

ingestVars == <<checkpoint, store, vindex, run>>

labelVars == <<email, tier2, assign, outbox, gmail, lab, drain>>

jobVars == <<jobs>>

archiveVars == <<archived, aoutbox, retention, kvRetention, adrain, lastPlan>>

sseVars == <<subscribers, queues, lock, subLock, pub, sub>>

\* The variables only the labeling decision touches.
clusterVars == <<clusters, settings>>

calendarVars == <<calendar, eventRow, req>>

autoVars == <<auto, maint>>

\* The variables of the parts modelled last.
utilVars == <<samp, subj, pay>>

markerVars == <<mailbox, marker>>

laterVars == <<autoVars, utilVars, markerVars>>

restVars == <<dec, clusterVars, calendarVars, laterVars>>

\* The variables no ingestion, labeling or label-push step touches.
otherVars == <<jobVars, archiveVars, sseVars, restVars>>

vars ==
    <<checkpoint, store, vindex, run, email, tier2, assign, outbox, gmail, lab, drain,
      jobs, archived, aoutbox, retention, kvRetention, adrain, lastPlan,
      subscribers, queues, lock, subLock, pub, sub, dec, clusters, settings,
      calendar, eventRow, req, auto, maint,
      samp, subj, pay, mailbox, marker>>

\* =====================================================================
\* Ingestion (app/ingestion/metadata_ingestion.py)
\* =====================================================================

\* The provider's messages, and the internal date (seconds) of each.
Provider == 1..MaxMsgs

TS(m) == m

\* Workers that can run an ingestion: job threads and the maintenance script.
Runs == {"r1", "r2"}

\* Timestamps a maintenance fallback cutoff (now - fallback_days) can take.
Cutoffs == 0..MaxMsgs

\* max_messages values of an incremental run (None, or a positive cap).
Caps == {NULL} \cup (1..MaxMsgs)

\* prev and end: how the worker's previous run of ingest_metadata ended
\* ("clean": it returned with the listing exhausted and nothing failed;
\* "partial": it returned after failures or at its cap; "none": no previous
\* run, or it crashed) and the checkpoint it left. Inside a run, prev tells
\* what the run follows, "none" when it did not start from that checkpoint.
IdleRun ==
    [pc |-> "idle", kind |-> "none", ckpt |-> NULL, adv |-> NULL, todo |-> {},
     cur |-> NULL, max |-> NULL, processed |-> 0, skipped |-> 0, failed |-> 0,
     prev |-> "none", end |-> NULL]

\* The locals of a new run of worker p.
NewRun(p) == [IdleRun EXCEPT !.prev = run[p].prev, !.end = run[p].end]

\* _query_after + iter_message_ids: the ids the provider lists for the query
\* `after:<checkpoint - 1s>` (every message when there is no checkpoint).
QueryAfter(ckpt) ==
    IF ckpt = NULL THEN Provider
    ELSE {m \in Provider : TS(m) > ckpt - 1}

\* clear_checkpoint_internal_date: DELETE of the key.
ClearCheckpoint == NULL

\* set_checkpoint_internal_date: the value the key holds after the write.
SetCheckpoint(dt) == dt

\* ingest_metadata line 131: does this message advance the local watermark?
Advances(adv, m) == adv = NULL \/ TS(m) > adv

\* A filter that lets the message at the checkpoint through.
OlderThanCheckpoint(ckpt, m) == ckpt # NULL /\ TS(m) < ckpt

\* ingest_metadata line 97: the explicit filter of the safety window.
AlreadyIngested(ckpt, m) == ckpt # NULL /\ TS(m) <= ckpt

\* start_ingest_full: the task clears the checkpoint, then ingests.
StartIngestFull(p) ==
    /\ run[p].pc = "idle"
    /\ checkpoint' = ClearCheckpoint
    /\ run' = [run EXCEPT ![p] = [NewRun(p) EXCEPT !.pc = "begin", !.kind = "full"]]
    /\ UNCHANGED <<store, vindex>>
    /\ UNCHANGED labelVars
    /\ UNCHANGED otherVars

\* start_ingest_refresh: ingests from the stored checkpoint.
StartIngestRefresh(p) ==
    /\ run[p].pc = "idle"
    /\ run' = [run EXCEPT ![p] = [NewRun(p) EXCEPT !.pc = "begin", !.kind = "refresh"]]
    /\ UNCHANGED <<checkpoint, store, vindex>>
    /\ UNCHANGED labelVars
    /\ UNCHANGED otherVars

\* start_incremental_run: ingests from the stored checkpoint with a cap.
StartIncrementalRun(p, max) ==
    /\ run[p].pc = "idle"
    /\ run' = [run EXCEPT ![p] =
                 [NewRun(p) EXCEPT !.pc = "begin", !.kind = "incremental", !.max = max]]
    /\ UNCHANGED <<checkpoint, store, vindex>>
    /\ UNCHANGED labelVars
    /\ UNCHANGED otherVars

\* run_maintenance lines 584-599: with no checkpoint, write the fallback cutoff.
StartMaintenance(p, cutoff) ==
    /\ run[p].pc = "idle"
    /\ checkpoint' = IF checkpoint = NULL THEN SetCheckpoint(cutoff) ELSE checkpoint
    /\ run' = [run EXCEPT ![p] = [NewRun(p) EXCEPT !.pc = "begin", !.kind = "maint"]]
    /\ UNCHANGED <<store, vindex>>
    /\ UNCHANGED labelVars
    /\ UNCHANGED otherVars

\* ingest_metadata lines 67-88: read the checkpoint, list the ids.
IngestBegin(p) ==
    /\ run[p].pc = "begin"
    /\ run' = [run EXCEPT ![p].pc = "loop",
                          ![p].ckpt = checkpoint,
                          ![p].adv = checkpoint,
                          ![p].todo = QueryAfter(checkpoint),
                          ![p].prev = IF checkpoint = run[p].end THEN run[p].prev
                                      ELSE "none",
                          ![p].end = NULL]
    /\ UNCHANGED <<checkpoint, store, vindex>>
    /\ UNCHANGED labelVars
    /\ UNCHANGED otherVars

\* The fields of the EmailMessage dataclass (app/domain/email.py); none has
\* a default.
EmailMessageFields ==
    {"gmail_message_id", "thread_id", "subject", "subject_normalized",
     "from_address", "from_domain", "to_addresses", "cc_addresses",
     "bcc_addresses", "is_unread", "internal_date", "label_ids"}

\* metadata_to_domain: the keyword arguments of its EmailMessage(...) call.
MappedFields ==
    {"gmail_message_id", "thread_id", "subject", "subject_normalized",
     "from_address", "from_domain", "to_addresses", "cc_addresses",
     "bcc_addresses", "is_unread", "internal_date"}

\* The dataclass __init__: a TypeError unless every field is passed.
Constructs(fields) == fields = EmailMessageFields

\* The ways one iteration of ingest_metadata over a Gmail message can go:
\* when metadata_to_domain raises, the except branch counts the message as
\* failed before anything is written.
IterationOutcomes ==
    IF Constructs(MappedFields) THEN {"fetch_fail", "vector_fail", "ok"}
    ELSE {"fetch_fail"}

\* internal_date of the three provider messages of the from-scratch run, in
\* epoch seconds.
InternalDate(m) == 1700000000 + 100 * (m - 1)

\* The iteration with the checkpoint write placed before the vector upsert:
\* a message whose vector upsert fails still reaches the write.
IngestMessageEarlyWrite(p, m, outcome) ==
    /\ run[p].pc = "loop"
    /\ m \in run[p].todo
    /\ run[p].max = NULL \/ run[p].processed < run[p].max
    /\ LET r == run[p]
           rest == r.todo \ {m}
       IN
       IF outcome = "fetch_fail" THEN
           /\ run' = [run EXCEPT ![p].todo = rest, ![p].failed = r.failed + 1]
           /\ UNCHANGED <<store, vindex>>
       ELSE IF AlreadyIngested(r.ckpt, m) THEN
           /\ run' = [run EXCEPT ![p].todo = rest, ![p].skipped = r.skipped + 1]
           /\ UNCHANGED <<store, vindex>>
       ELSE
           /\ store' = store \cup {m}
           /\ vindex' = IF outcome = "ok" THEN vindex \cup {m} ELSE vindex
           /\ run' = [run EXCEPT ![p].todo = rest,
                                 ![p].processed = r.processed + 1,
                                 ![p].cur = IF Advances(r.adv, m) THEN m ELSE NULL,
                                 ![p].pc = IF Advances(r.adv, m) THEN "advance" ELSE "loop"]
    /\ UNCHANGED checkpoint
    /\ UNCHANGED labelVars
    /\ UNCHANGED otherVars

\* ingest_metadata lines 92-128, one iteration up to the checkpoint write.
\* outcome: "fetch_fail" (get_message_metadata or insert_email raised),
\* "vector_fail" (the row is written, vectorize or the vector upsert raised),
\* "ok".
IngestMessage(p, m, outcome) ==
    /\ run[p].pc = "loop"
    /\ m \in run[p].todo
    /\ run[p].max = NULL \/ run[p].processed < run[p].max
    /\ LET r == run[p]
           rest == r.todo \ {m}
       IN
       IF outcome = "fetch_fail" THEN
           /\ run' = [run EXCEPT ![p].todo = rest, ![p].failed = r.failed + 1]
           /\ UNCHANGED <<store, vindex>>
       ELSE IF AlreadyIngested(r.ckpt, m) THEN
           /\ run' = [run EXCEPT ![p].todo = rest, ![p].skipped = r.skipped + 1]
           /\ UNCHANGED <<store, vindex>>
       ELSE IF outcome = "vector_fail" THEN
           /\ store' = store \cup {m}
           /\ run' = [run EXCEPT ![p].todo = rest, ![p].failed = r.failed + 1]
           /\ UNCHANGED vindex
       ELSE
           /\ store' = store \cup {m}
           /\ vindex' = vindex \cup {m}
           /\ run' = [run EXCEPT ![p].todo = rest,
                                 ![p].processed = r.processed + 1,
                                 ![p].cur = IF Advances(r.adv, m) THEN m ELSE NULL,
                                 ![p].pc = IF Advances(r.adv, m) THEN "advance" ELSE "loop"]
    /\ UNCHANGED checkpoint
    /\ UNCHANGED labelVars
    /\ UNCHANGED otherVars

\* ingest_metadata lines 131-133 (and 146-147 when the write raises):
\* advanced_to is assigned before set_checkpoint_internal_date is called.
IngestAdvance(p, ok) ==
    /\ run[p].pc = "advance"
    /\ LET r == run[p] IN
       /\ checkpoint' = IF ok THEN SetCheckpoint(TS(r.cur)) ELSE checkpoint
       /\ run' = [run EXCEPT ![p].pc = "loop",
                             ![p].adv = TS(r.cur),
                             ![p].cur = NULL,
                             ![p].failed = IF ok THEN r.failed ELSE r.failed + 1]
    /\ UNCHANGED <<store, vindex>>
    /\ UNCHANGED labelVars
    /\ UNCHANGED otherVars

\* ingest_metadata lines 88-90 and 161-176: the listing is exhausted, or the
\* cap is reached; the summary (the counters) is returned.
IngestFinish(p) ==
    /\ run[p].pc = "loop"
    /\ \/ run[p].todo = {}
       \/ run[p].max # NULL /\ run[p].processed >= run[p].max
    /\ run' = [run EXCEPT ![p].pc = "idle", ![p].todo = {},
                          ![p].prev = IF run[p].failed = 0 /\ run[p].todo = {}
                                      THEN "clean" ELSE "partial",
                          ![p].end = checkpoint]
    /\ UNCHANGED <<checkpoint, store, vindex>>
    /\ UNCHANGED labelVars
    /\ UNCHANGED otherVars

\* The worker dies (process exit): its locals are lost, the stores stay.
IngestCrash(p) ==
    /\ run[p].pc # "idle"
    /\ run' = [run EXCEPT ![p] = IdleRun]
    /\ UNCHANGED <<checkpoint, store, vindex>>
    /\ UNCHANGED labelVars
    /\ UNCHANGED otherVars


\* =====================================================================
\* Labeling (app/clustering/pipeline.py, app/labeling/incremental_pipeline.py)
\* =====================================================================

\* Messages the labeling model works on (a prefix of the provider's).
MaxLabelMsgs == 2

\* Cap on the rows ever written to the label-push outbox.
MaxOutbox == 3

LMsgs == 1..MaxLabelMsgs

\* SQL NULL for text cells.
NoCat == "NULL"

NoSub == "None"

\* Two of the six TIER1_CATEGORIES (the closed Tier-1 set).
Tier1 == {"Financial", "Commercial & Marketing"}

\* What labeler.label can answer after validate_tier1_category: a Tier-1
\* category and a Tier-2 name or none. The Tier-2 names are model-proposed
\* (not part of TIER2_SEED).
LabelResults ==
    {<<"Financial", "Utility Bills">>, <<"Financial", "Bank Fees">>,
     <<"Commercial & Marketing", NoSub>>}

NoResult == <<NoCat, NoSub>>

\* The characters \s matches and str.strip removes.
IsSpace(c) == c = " " \/ c = "\t" \/ c = "\n"

RECURSIVE LStrip(_)
LStrip(s) == IF s # "" /\ IsSpace(Head(s)) THEN LStrip(Tail(s)) ELSE s

RECURSIVE RStrip(_)
RStrip(s) ==
    IF s # "" /\ IsSpace(SubSeq(s, Len(s), Len(s)))
    THEN RStrip(SubSeq(s, 1, Len(s) - 1)) ELSE s

\* str.strip()
Strip(s) == RStrip(LStrip(s))

\* The longest Tier-2 name (len(s) > 80 in _sanitize_subcategory_name and in
\* ensure_tier2_label).
MaxTier2NameLen == 80

\* Settings.similarity_threshold (0.85, in hundredths) and Settings.label_version.
SimilarityThreshold == 85

LabelVersion == "tier2-v1"

\* _cluster_id: uuid5 of "cluster:<seed>:<threshold>:<version>"; the model keeps
\* the hashed triple.
ClusterId(seed, threshold, version) == <<seed, threshold, version>>

\* insert_cluster: INSERT INTO email_cluster ... ON CONFLICT
\* (seed_gmail_message_id) DO NOTHING.
InsertCluster(cid, seed) ==
    IF \E c \in clusters : c.seed = seed THEN clusters
    ELSE clusters \cup {[id |-> cid, seed |-> seed]}

NoCluster == <<NULL, NULL, "NULL">>

Unlabelled ==
    [category |-> NoCat, subcategory |-> NoSub, cluster_id |-> NoCluster,
     label_version |-> "NULL"]

Labelers == {"l1", "l2"}

\* at: the transaction's NOW() when it enqueues, 0 otherwise.
NoTxn == [del |-> {}, ins |-> {}, enq |-> FALSE, at |-> 0]

\* max_emails of a capped run, as start_incremental_run clamps it.
LabelCaps == 1..MaxLabelMsgs

IdleLab ==
    [pc |-> "idle", mode |-> "none", seed |-> NULL, members |-> {},
     result |-> NoResult, wrote |-> {}, txn |-> NoTxn, cap |-> NULL, count |-> 0]

\* emails_processed += 1 / clusters_done += 1. The counter is read only in
\* the comparison with the cap, so a run without a cap keeps it at 0.
Counted(r) == IF r.cap = NULL THEN r.count ELSE r.count + 1

\* The loop's first test: max_emails is not None and emails_processed >= max_emails.
CapReached(r) == r.cap # NULL /\ r.count >= r.cap

\* insert_email: INSERT ... ON CONFLICT (gmail_message_id) DO UPDATE of the
\* metadata columns; the row set after the statement.
InsertEmail(rows, m) == rows \cup {m}

\* insert_email leaves the classification columns of an existing row alone.
InsertEmailColumns(e, m) == e

\* fetch_next_unlabelled: WHERE category IS NULL ORDER BY internal_date, id LIMIT 1.
UnlabelledRows == {m \in store : email[m].category = NoCat}

FetchNextUnlabelled ==
    IF UnlabelledRows = {} THEN NULL
    ELSE CHOOSE m \in UnlabelledRows : \A n \in UnlabelledRows : TS(m) <= TS(n)

\* The UPDATE without its "AND category IS NULL" condition.
RowsMatchingIds(ids) == {m \in ids : m \in store}

\* label_emails_in_cluster: the rows the conditional UPDATE matches
\* (WHERE gmail_message_id = ANY(:gmail_ids) AND category IS NULL); its
\* rowcount is the cardinality.
RowsToLabel(ids) == {m \in ids : m \in store /\ email[m].category = NoCat}

\* An UPDATE that writes every listed row, labelled or not.
LabelEmailsOverwrite(ids, cid, res) ==
    [m \in DOMAIN email |->
        IF m \in ids /\ m \in store
        THEN [category |-> res[1], subcategory |-> res[2], cluster_id |-> cid,
              label_version |-> LabelVersion]
        ELSE email[m]]

\* label_emails_in_cluster: the columns after the UPDATE.
LabelEmailsInCluster(ids, cid, res) ==
    [m \in DOMAIN email |->
        IF m \in RowsToLabel(ids)
        THEN [category |-> res[1], subcategory |-> res[2], cluster_id |-> cid,
              label_version |-> settings.version]
        ELSE email[m]]

\* str.casefold, one character (the responses are ASCII).
Lower(c) ==
    CASE c = "A" -> "a" [] c = "B" -> "b" [] c = "C" -> "c" [] c = "D" -> "d"
      [] c = "E" -> "e" [] c = "F" -> "f" [] c = "G" -> "g" [] c = "H" -> "h"
      [] c = "I" -> "i" [] c = "J" -> "j" [] c = "K" -> "k" [] c = "L" -> "l"
      [] c = "M" -> "m" [] c = "N" -> "n" [] c = "O" -> "o" [] c = "P" -> "p"
      [] c = "Q" -> "q" [] c = "R" -> "r" [] c = "S" -> "s" [] c = "T" -> "t"
      [] c = "U" -> "u" [] c = "V" -> "v" [] c = "W" -> "w" [] c = "X" -> "x"
      [] c = "Y" -> "y" [] c = "Z" -> "z" [] OTHER -> c

RECURSIVE Casefold(_)
Casefold(s) == IF s = "" THEN "" ELSE Lower(Head(s)) \o Casefold(Tail(s))

Digits == {"0", "1", "2", "3", "4", "5", "6", "7", "8", "9"}

LowerAlnum ==
    Digits \cup {"a", "b", "c", "d", "e", "f", "g", "h", "i", "j", "k", "l", "m", "n",
                 "o", "p", "q", "r", "s", "t", "u", "v", "w", "x", "y", "z"}

\* slugify, after strip and lower: "&" becomes "and" and every other
\* character outside a-z0-9 a hyphen.
RECURSIVE SlugChars(_)
SlugChars(v) ==
    IF v = "" THEN ""
    ELSE (IF Head(v) = "&" THEN "and"
          ELSE IF Head(v) \in LowerAlnum THEN Head(v)
          ELSE "-") \o SlugChars(Tail(v))

\* re.sub(r"-+", "-", v)
RECURSIVE CollapseHyphens(_)
CollapseHyphens(v) ==
    IF Len(v) < 2 THEN v
    ELSE IF Head(v) = "-" /\ Head(Tail(v)) = "-" THEN CollapseHyphens(Tail(v))
    ELSE Head(v) \o CollapseHyphens(Tail(v))

\* v.strip("-") of a string without runs of hyphens.
StripHyphens(v) ==
    LET from == IF v # "" /\ Head(v) = "-" THEN 2 ELSE 1
        to == IF Len(v) > 1 /\ SubSeq(v, Len(v), Len(v)) = "-" THEN Len(v) - 1 ELSE Len(v)
    IN SubSeq(v, from, to)

\* slugify (app/labeling/tier2.py): strip and lower, the replacements, the
\* collapse and the strip of hyphens, each on the result of the one before.
Slugify(value) ==
    CHOOSE slug \in
        {StripHyphens(c) : c \in
            {CollapseHyphens(h) : h \in
                {SlugChars(f) : f \in {Casefold(v) : v \in {Strip(value)}}}}} : TRUE

\* _tier2_slug: "<parent_slug>--<slugify(name)>", the unique key of the row.
Tier2Slug(category, name) == <<category, Slugify(name)>>

\* ensure_tier2_label, the name it stores: stripped, and cut to 80
\* characters.
Tier2Name(name) ==
    IF Len(Strip(name)) > MaxTier2NameLen
    THEN RStrip(SubSeq(Strip(name), 1, MaxTier2NameLen))
    ELSE Strip(name)

\* ensure_tier2_label: INSERT ... ON CONFLICT (slug) DO NOTHING, called when
\* the accepted subcategory is not None; it returns early on an empty name.
EnsureTier2Label(res) ==
    IF res[2] = NoSub \/ Tier2Name(res[2]) = "" THEN tier2
    ELSE IF \E t \in tier2 : Tier2Slug(t[1], t[2]) = Tier2Slug(res[1], Tier2Name(res[2]))
    THEN tier2
    ELSE tier2 \cup {<<res[1], Tier2Name(res[2])>>}

\* upsert_message_taxonomy_assignment lines 40-70: Tier-2 when the name is
\* found under the category, else Tier-1.
TaxonomyLabelFor(res) ==
    IF res[2] # NoSub /\ res \in tier2 THEN res ELSE <<res[1], NoSub>>

\* label_push_outbox rows of a message with processed_at IS NULL.
PendingRows(m) == {i \in DOMAIN outbox : outbox[i].msg = m /\ ~outbox[i].proc}

OutboxRow(m, reason, at) ==
    [msg |-> m, reason |-> reason, proc |-> FALSE, err |-> FALSE, at |-> at]

\* created_at DEFAULT NOW(): the start time of the inserting transaction, a
\* logical time later than every time taken so far. The position of a row
\* in outbox is the order of the commits.
Now ==
    LET taken == {outbox[i].at : i \in DOMAIN outbox} \cup {lab[l].txn.at : l \in Labelers}
    IN 1 + (CHOOSE t \in taken \cup {0} : \A u \in taken \cup {0} : u <= t)

\* Only the order of the times is observable: when a transaction that took
\* time gone rolls back, the later times move down by one.
Release(at, gone) == IF gone # 0 /\ at > gone THEN at - 1 ELSE at

\* An ingestion run persists message m while labeling runs (insert_email and
\* the vector upsert of ingest_metadata).
EmailIngested(m) ==
    /\ store' = InsertEmail(store, m)
    /\ vindex' = vindex \cup {m}
    /\ email' = InsertEmailColumns(email, m)
    /\ UNCHANGED <<checkpoint, run, tier2, assign, outbox, gmail, lab, drain>>
    /\ UNCHANGED otherVars

\* start_cluster_label: a cluster engine run begins.
StartClusterLabel(l) ==
    /\ lab[l].pc \in {"idle", "done", "aborted"}
    /\ lab' = [lab EXCEPT ![l] = [IdleLab EXCEPT !.pc = "fetch", !.mode = "cluster"]]
    /\ UNCHANGED <<email, tier2, assign, outbox, gmail, drain>>
    /\ UNCHANGED ingestVars
    /\ UNCHANGED otherVars

\* start_incremental_run / start_label_auto: a per-message labeler run begins.
StartLabelIndividual(l) ==
    /\ lab[l].pc \in {"idle", "done", "aborted"}
    /\ lab' = [lab EXCEPT ![l] = [IdleLab EXCEPT !.pc = "fetch", !.mode = "individual"]]
    /\ UNCHANGED <<email, tier2, assign, outbox, gmail, drain>>
    /\ UNCHANGED ingestVars
    /\ UNCHANGED otherVars

\* start_incremental_run with max_emails: a per-message labeler run that
\* stops after max messages were processed.
StartLabelCapped(l, max) ==
    /\ lab[l].pc \in {"idle", "done", "aborted"}
    /\ lab' = [lab EXCEPT ![l] = [IdleLab EXCEPT !.pc = "fetch", !.mode = "individual",
                                                 !.cap = max]]
    /\ UNCHANGED <<email, tier2, assign, outbox, gmail, drain>>
    /\ UNCHANGED ingestVars
    /\ UNCHANGED otherVars

\* Top of the loop: the cap test, then fetch_next_unlabelled; a reached cap
\* or no row ends the run. Else the cluster id is computed from the seed
\* and the run's settings and insert_cluster is called. The cluster
\* engine assembles the candidates around the seed (same-domain unlabelled
\* rows, or the vector neighbours, which may be labelled already); the
\* per-message labeler's cluster is the seed alone.
LabelFetch(l, group) ==
    /\ lab[l].pc = "fetch"
    /\ LET seed == FetchNextUnlabelled IN
       IF CapReached(lab[l]) \/ seed = NULL THEN
           /\ group = {}
           /\ lab' = [lab EXCEPT ![l].pc = "done", ![l].seed = NULL, ![l].members = {},
                                 ![l].result = NoResult, ![l].wrote = {}]
           /\ clusters' = clusters
       ELSE
           /\ seed \in group
           /\ lab[l].mode = "individual" => group = {seed}
           /\ lab' = [lab EXCEPT ![l].pc = "label", ![l].seed = seed,
                                 ![l].members = group, ![l].result = NoResult,
                                 ![l].wrote = {}]
           /\ clusters' = InsertCluster(ClusterId(seed, settings.threshold, settings.version),
                                        seed)
    /\ UNCHANGED <<email, tier2, assign, outbox, gmail, drain>>
    /\ UNCHANGED ingestVars
    /\ UNCHANGED <<jobVars, archiveVars, sseVars, dec, settings, calendarVars, laterVars>>

\* labeler.label returned res and validate_tier1_category accepted it.
LabelCall(l, res) ==
    /\ lab[l].pc = "label"
    /\ res[1] \in Tier1
    /\ lab' = [lab EXCEPT ![l].pc = "update", ![l].result = res]
    /\ UNCHANGED <<email, tier2, assign, outbox, gmail, drain>>
    /\ UNCHANGED ingestVars
    /\ UNCHANGED otherVars

\* labeler.label (or, for the per-message labeler, the body fetch) raised.
\* label_unlabelled_individual catches it and goes on with the next
\* iteration; cluster_and_label has no handler and the run ends.
LabelFail(l) ==
    /\ lab[l].pc = "label"
    /\ lab' = [lab EXCEPT ![l].pc = IF lab[l].mode = "individual" THEN "fetch" ELSE "aborted",
                          ![l].count = Counted(lab[l])]
    /\ UNCHANGED <<email, tier2, assign, outbox, gmail, drain>>
    /\ UNCHANGED ingestVars
    /\ UNCHANGED otherVars

\* ensure_tier2_label, then label_emails_in_cluster (the conditional UPDATE;
\* update_cluster_label touches the cluster row only). The cluster engine's
\* iteration ends here; the per-message labeler goes on to the assignment.
LabelUpdate(l) ==
    /\ lab[l].pc = "update"
    /\ LET r == lab[l]
           cid == ClusterId(r.seed, settings.threshold, settings.version)
       IN
       /\ tier2' = EnsureTier2Label(r.result)
       /\ email' = LabelEmailsInCluster(r.members, cid, r.result)
       /\ lab' = [lab EXCEPT ![l].wrote = RowsToLabel(r.members),
                             ![l].pc = IF r.mode = "individual" THEN "assign" ELSE "fetch",
                             ![l].count = IF r.mode = "individual" THEN r.count
                                          ELSE Counted(r)]
    /\ UNCHANGED <<assign, outbox, gmail, drain>>
    /\ UNCHANGED ingestVars
    /\ UNCHANGED otherVars

\* upsert_message_taxonomy_assignment, the statements of its transaction:
\* the DELETE matches the committed rows of the message, the INSERT adds the
\* row of the label found, the outbox INSERT ... WHERE NOT EXISTS sees the
\* committed outbox. Nothing is visible to others before the commit. A
\* statement that touches a row another open transaction deleted or inserted
\* waits for that transaction.
AssignExec(l) ==
    /\ lab[l].pc = "assign"
    /\ LET m == lab[l].seed IN
       /\ \A k \in Labelers \ {l} :
             /\ lab[k].txn.del \cap {a \in assign : a[1] = m} = {}
             /\ <<m, TaxonomyLabelFor(lab[l].result)>> \notin lab[k].txn.ins
       /\ lab' = [lab EXCEPT ![l].pc = "commit",
                          ![l].txn = [del |-> {a \in assign : a[1] = m},
                                      ins |-> {<<m, TaxonomyLabelFor(lab[l].result)>>},
                                      enq |-> PendingRows(m) = {},
                                      at |-> IF PendingRows(m) = {} THEN Now ELSE 0]]
    /\ UNCHANGED <<email, tier2, assign, outbox, gmail, drain>>
    /\ UNCHANGED ingestVars
    /\ UNCHANGED otherVars

\* The commit of upsert_message_taxonomy_assignment.
AssignCommit(l) ==
    /\ lab[l].pc = "commit"
    /\ lab[l].txn.enq => Len(outbox) < MaxOutbox
    /\ LET t == lab[l].txn IN
       /\ assign' = (assign \ t.del) \cup t.ins
       /\ outbox' = IF t.enq THEN Append(outbox, OutboxRow(lab[l].seed, "label_assigned", t.at))
                    ELSE outbox
    /\ lab' = [lab EXCEPT ![l].pc = "fetch", ![l].txn = NoTxn,
                          ![l].count = Counted(lab[l])]
    /\ UNCHANGED <<email, tier2, gmail, drain>>
    /\ UNCHANGED ingestVars
    /\ UNCHANGED otherVars

\* The labeling worker dies; an open transaction is rolled back.
LabelCrash(l) ==
    /\ lab[l].pc \notin {"idle", "done", "aborted"}
    /\ LET gone == lab[l].txn.at IN
       /\ lab' = [k \in Labelers |->
                    IF k = l THEN IdleLab
                    ELSE [lab[k] EXCEPT !.txn.at = Release(lab[k].txn.at, gone)]]
       /\ outbox' = [i \in DOMAIN outbox |->
                       [outbox[i] EXCEPT !.at = Release(outbox[i].at, gone)]]
    /\ UNCHANGED <<email, tier2, assign, gmail, drain>>
    /\ UNCHANGED ingestVars
    /\ UNCHANGED otherVars

\* =====================================================================
\* Taxonomy merge (app/repository/taxonomy_cleanup_repository.py)
\* =====================================================================

\* Append one outbox row per message of ms, in message order.
RECURSIVE EnqueueAll(_, _, _, _)
EnqueueAll(rows, ms, reason, at) ==
    IF ms = {} THEN rows
    ELSE LET m == CHOOSE x \in ms : \A y \in ms : x <= y
         IN EnqueueAll(Append(rows, OutboxRow(m, reason, at)), ms \ {m}, reason, at)

\* merge_taxonomy_labels lines 219-232: the rows the merge enqueues, one per
\* message assigned to the source label.
MergeEnqueue(rows, moved) == EnqueueAll(rows, moved, "taxonomy_merge", Now)

\* merge_taxonomy_labels lines 204-217 and 234-237: the assignments after
\* the move to the target label and the DELETE of the source rows.
MergeAssignments(source, target) ==
    LET moved == {a[1] : a \in {x \in assign : x[2] = source}}
    IN (assign \cup {<<m, target>> : m \in moved}) \ {<<m, source>> : m \in moved}

\* merge_taxonomy_labels: both labels are Tier-2 under the same parent; one
\* transaction moves the assignments, enqueues and deletes the source label.
\* The DELETE of the label waits for open transactions that reference it.
MergeTaxonomyLabels(source, target, enqueue) ==
    /\ source \in tier2 /\ target \in tier2
    /\ source # target
    /\ source[1] = target[1]
    /\ \A l \in Labelers : \A a \in lab[l].txn.ins : a[2] # source
    /\ LET moved == {a[1] : a \in {x \in assign : x[2] = source}} IN
       /\ enqueue => Len(outbox) + Cardinality(moved) <= MaxOutbox
       /\ assign' = MergeAssignments(source, target)
       /\ outbox' = IF enqueue /\ moved # {} THEN MergeEnqueue(outbox, moved) ELSE outbox
    /\ tier2' = tier2 \ {source}
    /\ UNCHANGED <<email, gmail, lab, drain>>
    /\ UNCHANGED ingestVars
    /\ UNCHANGED otherVars

\* =====================================================================
\* Label-push drain (app/api/jobs.py start_gmail_push_outbox,
\* app/maintenance.py _push_label_outbox)
\* =====================================================================

Drainers == {"d1"}

\* Two drains at a time: two jobs, or a job and the label-push step of a
\* maintenance run.
ConcurrentDrainers == {"d1", "d2"}

\* batch_size of start_gmail_push_outbox (and of the maintenance call).
BatchSize == 250

\* limit of push_labels_incremental (PushIncrementalRequest.limit default).
SyncLimit == 200

\* mode: "job" (start_gmail_push_outbox, _push_label_outbox: batches until
\* the outbox is empty, one inline retry) or "sync" (push_labels_incremental:
\* one batch, no retry). attempts, first, last: the provider calls made for
\* the row in hand, the result of the first and of the last of them.
IdleDrain ==
    [pc |-> "idle", mode |-> "none", batch |-> <<>>, add |-> {}, failed |-> 0,
     attempts |-> 0, first |-> "none", last |-> "none"]

\* The HTTP statuses the drain retries once.
TransientStatus == {"http429", "http500", "http502", "http503", "http504"}

\* The result of a provider call: "ok", an HttpError with its status, or
\* another exception ("error", e.g. a network error).
PushOutcomes == {"ok", "error", "http403", "http429", "http503"}

\* Row x sorts before row y: the earlier created_at, then the smaller id.
Earlier(x, y) ==
    \/ outbox[x].at < outbox[y].at
    \/ outbox[x].at = outbox[y].at /\ x <= y

\* The members of a set of row ids as a sequence ascending by created_at.
RECURSIVE Ascending(_)
Ascending(ids) ==
    IF ids = {} THEN <<>>
    ELSE LET i == CHOOSE x \in ids : \A y \in ids : Earlier(x, y)
         IN <<i>> \o Ascending(ids \ {i})

\* q_fetch: the unprocessed rows, ORDER BY created_at ASC LIMIT :limit.
FetchBatch(limit) ==
    LET all == Ascending({i \in DOMAIN outbox : ~outbox[i].proc})
    IN IF Len(all) <= limit THEN all ELSE SubSeq(all, 1, limit)

\* q_tids: the labels assigned to the message of a row.
AssignedLabels(m) == {a[2] : a \in {x \in assign : x[1] = m}}

\* q_mark_ok / q_mark_err: processed_at = NOW(), error = NULL or the message.
MarkRow(rows, i, error) == [rows EXCEPT ![i].proc = TRUE, ![i].err = error]

\* The drain's position after a row is done: the next row of the batch;
\* after the last row the job runs q_fetch again and the sync endpoint returns.
AfterRow(d) ==
    IF Len(drain[d].batch) > 1 THEN "read"
    ELSE IF drain[d].mode = "job" THEN "fetch" ELSE "done"

\* start_gmail_push_outbox / the label-push step of run_maintenance begins.
StartPushOutbox(d) ==
    /\ drain[d].pc \in {"idle", "done"}
    /\ drain' = [drain EXCEPT ![d] = [IdleDrain EXCEPT !.pc = "fetch", !.mode = "job"]]
    /\ UNCHANGED <<email, tier2, assign, outbox, gmail, lab>>
    /\ UNCHANGED ingestVars
    /\ UNCHANGED otherVars

\* push_labels_incremental (POST /messages/push-incremental) begins.
StartPushIncremental(d) ==
    /\ drain[d].pc \in {"idle", "done"}
    /\ drain' = [drain EXCEPT ![d] = [IdleDrain EXCEPT !.pc = "fetch", !.mode = "sync"]]
    /\ UNCHANGED <<email, tier2, assign, outbox, gmail, lab>>
    /\ UNCHANGED ingestVars
    /\ UNCHANGED otherVars

\* q_fetch; an empty batch ends the drain.
DrainFetch(d) ==
    /\ drain[d].pc = "fetch"
    /\ LET b == FetchBatch(IF drain[d].mode = "job" THEN BatchSize ELSE SyncLimit) IN
       drain' = [drain EXCEPT ![d].batch = b,
                              ![d].pc = IF b = <<>> THEN "done" ELSE "read"]
    /\ UNCHANGED <<email, tier2, assign, outbox, gmail, lab>>
    /\ UNCHANGED ingestVars
    /\ UNCHANGED otherVars

\* q_tids and q_label_rows for the head row: the provider label ids to add
\* are those of the assigned labels that have a gmail_label_id (mapped, which
\* the label sync decides). With none, RuntimeError("missing gmail label
\* mapping") is caught and the row is marked with the error.
DrainRead(d, mapped) ==
    /\ drain[d].pc = "read"
    /\ LET i == Head(drain[d].batch)
           r == drain[d]
       IN
       /\ mapped \subseteq AssignedLabels(outbox[i].msg)
       /\ IF mapped = {} THEN
             /\ outbox' = MarkRow(outbox, i, TRUE)
             /\ drain' = [drain EXCEPT ![d].pc = AfterRow(d),
                                       ![d].batch = Tail(r.batch),
                                       ![d].attempts = 0,
                                       ![d].first = "none",
                                       ![d].last = "none",
                                       ![d].failed = r.failed + 1]
          ELSE
             /\ drain' = [drain EXCEPT ![d].pc = "push", ![d].add = mapped,
                                       ![d].attempts = 0,
                                       ![d].first = "none",
                                       ![d].last = "none"]
             /\ UNCHANGED outbox
    /\ UNCHANGED <<email, tier2, assign, gmail, lab>>
    /\ UNCHANGED ingestVars
    /\ UNCHANGED otherVars

\* A drain that retries after any failure of the first call.
RetriesAfterAnyFailure(mode, outcome) == outcome # "ok"

\* The drain retries after this outcome of the first call: the job does on
\* an HttpError with a transient status; the sync endpoint never does.
RetriesAfter(mode, outcome) == mode = "job" /\ outcome \in TransientStatus

\* The first modify_message_labels call for the row and, unless a retry
\* follows, the mark (q_mark_ok / q_mark_err).
DrainPush(d, outcome) ==
    /\ drain[d].pc = "push"
    /\ LET i == Head(drain[d].batch)
           r == drain[d]
           m == outbox[i].msg
       IN
       IF RetriesAfter(r.mode, outcome) THEN
           /\ drain' = [drain EXCEPT ![d].pc = "retry", ![d].attempts = 1,
                                     ![d].first = outcome, ![d].last = outcome]
           /\ UNCHANGED <<gmail, outbox>>
       ELSE
           /\ gmail' = IF outcome = "ok" THEN [gmail EXCEPT ![m] = gmail[m] \cup r.add]
                        ELSE gmail
           /\ outbox' = MarkRow(outbox, i, outcome # "ok")
           /\ drain' = [drain EXCEPT ![d].pc = AfterRow(d),
                                     ![d].batch = Tail(r.batch),
                                     ![d].add = {},
                                     ![d].attempts = 1,
                                     ![d].first = outcome,
                                     ![d].last = outcome,
                                     ![d].failed = IF outcome = "ok" THEN r.failed
                                                   ELSE r.failed + 1]
    /\ UNCHANGED <<email, tier2, assign, lab>>
    /\ UNCHANGED ingestVars
    /\ UNCHANGED otherVars

\* The inline retry (after time.sleep(0.25)) and the mark that follows; any
\* exception of the retry marks the row with the error.
DrainRetry(d, outcome) ==
    /\ drain[d].pc = "retry"
    /\ LET i == Head(drain[d].batch)
           r == drain[d]
           m == outbox[i].msg
       IN
       /\ gmail' = IF outcome = "ok" THEN [gmail EXCEPT ![m] = gmail[m] \cup r.add]
                    ELSE gmail
       /\ outbox' = MarkRow(outbox, i, outcome # "ok")
       /\ drain' = [drain EXCEPT ![d].pc = AfterRow(d),
                                 ![d].batch = Tail(r.batch),
                                 ![d].add = {},
                                 ![d].attempts = 2,
                                 ![d].last = outcome,
                                 ![d].failed = IF outcome = "ok" THEN r.failed
                                               ELSE r.failed + 1]
    /\ UNCHANGED <<email, tier2, assign, lab>>
    /\ UNCHANGED ingestVars
    /\ UNCHANGED otherVars

\* =====================================================================
\* Background jobs (app/api/jobs.py)
\* =====================================================================

JobIds == {"j1", "j2"}

\* Items a job's task has to handle.
MaxJobItems == 2

\* The job types whose task handles a batch of rows: the ingest jobs, the
\* label-push job, the archive push and the archive trash; and the cluster
\* labeling job.
JobTypes ==
    {"ingest_full", "ingest_refresh", "gmail_push_outbox", "gmail_archive_push",
     "gmail_archive_trash", "cluster_label"}

NoJob == [type |-> "none", state |-> "none", left |-> 0, failed |-> 0, outcome |-> "none"]

\* The tasks that end with `if failed > 0: raise RuntimeError(...)`:
\* start_gmail_push_outbox and start_gmail_archive_push. The ingest tasks
\* return ingest_metadata's summary; start_gmail_archive_trash only sets a
\* message ("Do not mark the job as failed purely because of partial
\* per-message failures").
RaisesOnFailures(type) == type \in {"gmail_push_outbox", "gmail_archive_push"}

\* _set_job with the state written whatever the caller passed.
SetJobAnyState(job, state, failed) ==
    [job EXCEPT !.state = state,
                !.failed = IF failed = NULL THEN job.failed ELSE failed]

\* _set_job: the state is written only when the argument is given
\* ("keep" stands for state=None); the counters likewise.
SetJob(job, state, failed) ==
    [job EXCEPT !.state = IF state = "keep" THEN job.state ELSE state,
                !.failed = IF failed = NULL THEN job.failed ELSE failed]

\* _add_job_error: appends a sample; the state is not touched.
AddJobError(job) == job

\* The POST handler registers the job as queued and starts its thread.
StartJob(j, type, n) ==
    /\ jobs[j].state = "none"
    /\ jobs' = [jobs EXCEPT ![j] = [type |-> type, state |-> "queued", left |-> n,
                                    failed |-> 0, outcome |-> "none"]]
    /\ UNCHANGED <<ingestVars, labelVars, archiveVars, sseVars, restVars>>

\* _run_in_thread.runner, first statement.
JobRunning(j) ==
    /\ jobs[j].state = "queued"
    /\ jobs' = [jobs EXCEPT ![j] = SetJob(jobs[j], "running", NULL)]
    /\ UNCHANGED <<ingestVars, labelVars, archiveVars, sseVars, restVars>>

\* The task handles one item; a failure is counted (and sampled) and the
\* progress hook reports the counters.
JobItem(j, ok) ==
    /\ jobs[j].state = "running"
    /\ jobs[j].left > 0
    /\ LET job == [jobs[j] EXCEPT !.left = jobs[j].left - 1]
           failed == IF ok THEN job.failed ELSE job.failed + 1
       IN jobs' = [jobs EXCEPT ![j] =
                      SetJob(IF ok THEN job ELSE AddJobError(job), "keep", failed)]
    /\ UNCHANGED <<ingestVars, labelVars, archiveVars, sseVars, restVars>>

\* runner's try/except around fn(): the state written for the way the task ended.
RunnerState(outcome) == IF outcome = "raised" THEN "failed" ELSE "succeeded"

\* The task raised out of its loop (an unhandled exception, e.g. the model
\* call of a cluster iteration or the provider client): runner's except
\* branch.
JobRaise(j) ==
    /\ jobs[j].state = "running"
    /\ jobs[j].left > 0
    /\ jobs' = [jobs EXCEPT ![j] =
                   SetJob([jobs[j] EXCEPT !.outcome = "raised"], RunnerState("raised"), NULL)]
    /\ UNCHANGED <<ingestVars, labelVars, archiveVars, sseVars, restVars>>

\* The batch is done: the task raises its final RuntimeError or returns,
\* and runner writes the terminal state.
JobFinish(j) ==
    /\ jobs[j].state = "running"
    /\ jobs[j].left = 0
    /\ LET outcome == IF RaisesOnFailures(jobs[j].type) /\ jobs[j].failed > 0
                      THEN "raised" ELSE "returned"
       IN jobs' = [jobs EXCEPT ![j] =
                      SetJob([jobs[j] EXCEPT !.outcome = outcome], RunnerState(outcome), NULL)]
    /\ UNCHANGED <<ingestVars, labelVars, archiveVars, sseVars, restVars>>

\* The server process restarts: the registry is in memory only.
JobsLost ==
    /\ \E j \in JobIds : jobs[j].state # "none"
    /\ jobs' = [j \in JobIds |-> NoJob]
    /\ UNCHANGED <<ingestVars, labelVars, archiveVars, sseVars, restVars>>

\* =====================================================================
\* Retention planning and archive push
\* (app/repository/retention_archive_repository.py, app/api/gmail_sync.py
\* retention_plan, app/api/jobs.py start_gmail_archive_push)
\* =====================================================================

ArchiveWorkers == {"a1"}

\* DEFAULT_RETENTION_DEFAULT_DAYS (365 * 2).
DefaultRetentionDefaultDays == 730

\* batch_size of start_gmail_archive_push.
ArchiveBatchSize == 200

\* The labels of the taxonomy: Tier-1 <<category, NoSub>>, Tier-2 <<category, name>>.
TaxonomyLabels == {<<c, NoSub>> : c \in Tier1} \cup {r \in LabelResults : r[2] # NoSub}

\* retention_days a caller sets on a label, the retention default a caller
\* stores (the API accepts 1..3650), and NOW() of a planning run, in days;
\* a message's internal_date is day TS(m).
RetentionChoices == {NULL, 180}

DefaultChoices == {150}

PlanTimes == {200, 800}

\* max_rows of a capped planning run.
MaxRows == 1

\* The marker label the archive worker adds at the provider, in a mailbox
\* without labels named "Archive" or "Archived" (see MarkerResolve).
ArchiveMarker == <<"Email Archive", NoSub>>

IdleArchive == [pc |-> "idle", batch |-> <<>>, failed |-> 0]

NoPlan == [tick |-> FALSE, now |-> 0, max |-> NULL]

\* get_retention_default_days: the stored days, or 730 when unset or not positive.
GetRetentionDefaultDays(raw) ==
    IF raw = NULL \/ raw <= 0 THEN DefaultRetentionDefaultDays ELSE raw

\* LEFT JOIN taxonomy_label p ON p.id = tl.parent_id: the parent's
\* retention_days, NULL for a Tier-1 label.
ParentRetention(label) ==
    IF label[2] = NoSub THEN NULL ELSE retention[<<label[1], NoSub>>]

\* COALESCE(tl.retention_days, p.retention_days, :default_days).
EffectiveRetention(label, default) ==
    IF retention[label] # NULL THEN retention[label]
    ELSE IF ParentRetention(label) # NULL THEN ParentRetention(label)
    ELSE default

\* The eligible CTE: messages not archived that JOIN an assigned label whose
\* effective retention has passed.
Eligible(now, default) ==
    {m \in store :
        /\ ~archived[m]
        /\ \E a \in assign :
              a[1] = m /\ TS(m) <= now - EffectiveRetention(a[2], default)}

\* ORDER BY em.id ASC LIMIT :limit (the message number stands for the row id).
RECURSIVE FirstRows(_, _)
FirstRows(ms, limit) ==
    IF ms = {} \/ limit <= 0 THEN {}
    ELSE LET m == CHOOSE x \in ms : \A y \in ms : x <= y
         IN {m} \cup FirstRows(ms \ {m}, limit - 1)

\* INSERT of one row without the ON CONFLICT clause.
InsertArchiveRow(rows, m) == Append(rows, [msg |-> m, proc |-> FALSE, err |-> FALSE])

\* INSERT ... ON CONFLICT (message_id) DO UPDATE SET created_at = NOW(),
\* processed_at = NULL, error = NULL, for one message.
UpsertArchiveRow(rows, m) ==
    IF \E i \in DOMAIN rows : rows[i].msg = m
    THEN [i \in DOMAIN rows |->
            IF rows[i].msg = m THEN [rows[i] EXCEPT !.proc = FALSE, !.err = FALSE]
            ELSE rows[i]]
    ELSE Append(rows, [msg |-> m, proc |-> FALSE, err |-> FALSE])

\* The INSERT ... SELECT over the eligible messages.
RECURSIVE UpsertAll(_, _)
UpsertAll(rows, ms) ==
    IF ms = {} THEN rows
    ELSE LET m == CHOOSE x \in ms : \A y \in ms : x <= y
         IN UpsertAll(UpsertArchiveRow(rows, m), ms \ {m})

\* update_label / bulk_set_retention_days: retention_days of an existing label.
SetRetentionDays(label, days) ==
    /\ label[2] # NoSub => label \in tier2
    /\ retention[label] # days
    /\ retention' = [retention EXCEPT ![label] = days]
    /\ UNCHANGED <<archived, aoutbox, kvRetention, adrain, lastPlan>>
    /\ UNCHANGED <<ingestVars, labelVars, jobVars, sseVars, restVars>>

\* set_retention_default_days.
SetRetentionDefaultDays(days) ==
    /\ kvRetention # days
    /\ kvRetention' = days
    /\ UNCHANGED <<archived, aoutbox, retention, adrain, lastPlan>>
    /\ UNCHANGED <<ingestVars, labelVars, jobVars, sseVars, restVars>>

\* plan_archive_outbox (run_maintenance, and retention_plan without max_rows):
\* one statement upserts a row for every eligible message.
PlanArchiveOutbox(now) ==
    LET ms == Eligible(now, GetRetentionDefaultDays(kvRetention)) IN
    /\ aoutbox' = UpsertAll(aoutbox, ms)
    /\ lastPlan' = [tick |-> ~lastPlan.tick, now |-> now, max |-> NULL]
    /\ UNCHANGED <<archived, retention, kvRetention, adrain>>
    /\ UNCHANGED <<ingestVars, labelVars, jobVars, sseVars, restVars>>

\* retention_plan with max_rows: the same statement over the first max_rows
\* eligible messages.
RetentionPlanCapped(now, max) ==
    LET ms == FirstRows(Eligible(now, GetRetentionDefaultDays(kvRetention)), max) IN
    /\ aoutbox' = UpsertAll(aoutbox, ms)
    /\ lastPlan' = [tick |-> ~lastPlan.tick, now |-> now, max |-> max]
    /\ UNCHANGED <<archived, retention, kvRetention, adrain>>
    /\ UNCHANGED <<ingestVars, labelVars, jobVars, sseVars, restVars>>

\* fetch_pending_batch: WHERE processed_at IS NULL ORDER BY id ASC LIMIT :limit.
FetchPendingBatch(limit) ==
    LET RECURSIVE ById(_)
        ById(ids) ==
            IF ids = {} THEN <<>>
            ELSE LET i == CHOOSE x \in ids : \A y \in ids : x <= y
                 IN <<i>> \o ById(ids \ {i})
        all == ById({i \in DOMAIN aoutbox : ~aoutbox[i].proc})
    IN IF Len(all) <= limit THEN all ELSE SubSeq(all, 1, limit)

\* mark_outbox_succeeded, the outbox half: processed_at = NOW(), error = NULL.
\* mark_outbox_failed: processed_at = NOW(), error = the message.
MarkArchiveRow(rows, i, error) == [rows EXCEPT ![i].proc = TRUE, ![i].err = error]

\* The stamp left out: archived_at stays as it was.
ArchivedAtUntouched(arch, m) == arch

\* mark_outbox_succeeded, the message half, in the same transaction:
\* UPDATE email_message SET archived_at = NOW().
StampArchivedAt(arch, m) == [arch EXCEPT ![m] = TRUE]

\* start_gmail_archive_push / the archive step of run_maintenance begins
\* (the marker label is found or created).
StartArchivePush(a) ==
    /\ adrain[a].pc \in {"idle", "done"}
    /\ adrain' = [adrain EXCEPT ![a] = [IdleArchive EXCEPT !.pc = "fetch"]]
    /\ UNCHANGED <<archived, aoutbox, retention, kvRetention, lastPlan>>
    /\ UNCHANGED <<ingestVars, labelVars, jobVars, sseVars, restVars>>

\* fetch_pending_batch; an empty batch ends the worker.
ArchiveFetch(a) ==
    /\ adrain[a].pc = "fetch"
    /\ LET b == FetchPendingBatch(ArchiveBatchSize) IN
       adrain' = [adrain EXCEPT ![a].batch = b,
                                ![a].pc = IF b = <<>> THEN "done" ELSE "push"]
    /\ UNCHANGED <<archived, aoutbox, retention, kvRetention, lastPlan>>
    /\ UNCHANGED <<ingestVars, labelVars, jobVars, sseVars, restVars>>

\* The rest of the loop body after the provider call(s) for the head row
\* ended with outcome: on "ok" mark_outbox_succeeded (dbok: its transaction
\* committed; otherwise it raised, nothing of it is kept and the handler
\* marks the row failed), on anything else mark_outbox_failed.
ArchiveSettle(a, outcome, dbok) ==
    LET i == Head(adrain[a].batch)
        m == aoutbox[i].msg
        ok == outcome = "ok" /\ dbok
    IN
    /\ gmail' = IF outcome = "ok" THEN [gmail EXCEPT ![m] = @ \cup {ArchiveMarker}] ELSE gmail
    /\ aoutbox' = MarkArchiveRow(aoutbox, i, ~ok)
    /\ archived' = IF ok THEN StampArchivedAt(archived, m) ELSE ArchivedAtUntouched(archived, m)
    /\ adrain' = [adrain EXCEPT ![a].batch = Tail(adrain[a].batch),
                                ![a].pc = IF Len(adrain[a].batch) > 1 THEN "push" ELSE "fetch",
                                ![a].failed = IF ok THEN @ ELSE 1]

\* modify_message_labels for the head row of the batch: a transient HTTP
\* status leads to the one inline retry, any other result settles the row.
ArchivePush(a, outcome, dbok) ==
    /\ adrain[a].pc = "push"
    /\ IF RetriesAfter("job", outcome) THEN
          /\ adrain' = [adrain EXCEPT ![a].pc = "retry"]
          /\ UNCHANGED <<gmail, aoutbox, archived>>
       ELSE ArchiveSettle(a, outcome, dbok)
    /\ UNCHANGED <<retention, kvRetention, lastPlan>>
    /\ UNCHANGED <<email, tier2, assign, outbox, lab, drain>>
    /\ UNCHANGED <<ingestVars, jobVars, sseVars, restVars>>

\* The second call, after time.sleep(0.25); its result settles the row.
ArchiveRetry(a, outcome, dbok) ==
    /\ adrain[a].pc = "retry"
    /\ ArchiveSettle(a, outcome, dbok)
    /\ UNCHANGED <<retention, kvRetention, lastPlan>>
    /\ UNCHANGED <<email, tier2, assign, outbox, lab, drain>>
    /\ UNCHANGED <<ingestVars, jobVars, sseVars, restVars>>

\* The archive worker dies (process restart) between two statements.
ArchiveCrash(a) ==
    /\ adrain[a].pc \notin {"idle", "done"}
    /\ adrain' = [adrain EXCEPT ![a] = IdleArchive]
    /\ UNCHANGED <<archived, aoutbox, retention, kvRetention, lastPlan>>
    /\ UNCHANGED <<ingestVars, labelVars, jobVars, sseVars, restVars>>

\* =====================================================================
\* Job status events (app/api/jobs.py: _subscribe, _unsubscribe, _broadcast,
\* _set_job, job_events, _run_in_thread)
\* =====================================================================

\* The job whose status is streamed, and the thread that runs its task.
SseJob == "j1"

Worker == "w"

\* The SSE clients; each stands for the queue object its request creates.
Subscribers == {"s1", "s2"}

\* queue.Queue(maxsize=25)
QueueMaxSize == 25

\* Items the streamed job's task handles, one progress update each.
SseItems == 25

TerminalStates == {"succeeded", "failed"}

IdlePub == [pc |-> "idle", kind |-> "none", todo |-> <<>>, payload |-> <<"none", 0>>]

IdleSub == [pc |-> "out", got |-> "none"]

\* _as_response + json.dumps: the status an event carries (state and the
\* items still to handle, which stands for the progress counters).
Payload(job) == <<job.state, job.left>>

\* list(_subscribers.get(job_id, set())): the subscribed queues, in the
\* set's iteration order.
RECURSIVE SubsList(_)
SubsList(S) ==
    IF S = {} THEN <<>>
    ELSE LET s == CHOOSE x \in S : TRUE IN <<s>> \o SubsList(S \ {s})

\* A put that waits for room: q.put(payload).
PutWaits(q) == Len(q) < QueueMaxSize

\* Whether q.put_nowait returns to its caller (it never waits for room).
PutReturns(q) == TRUE

\* Whether q.put_nowait raises queue.Full.
Full(q) == Len(q) >= QueueMaxSize

\* A queue that gives up its newest event instead.
DropNewest(q) == IF q = <<>> THEN q ELSE SubSeq(q, 1, Len(q) - 1)

\* q.get_nowait() inside `except queue.Empty: pass`: the oldest event goes.
DropOldest(q) == IF q = <<>> THEN q ELSE Tail(q)

\* The updates the runner and the task make, by the state of the job:
\* state="running" first, one progress update per item, and the terminal
\* state when the task returned or raised.
UpdateKinds(job) ==
    CASE job.state = "queued" -> {"running"}
      [] job.state = "running" /\ job.left > 0 -> {"item", "raise"}
      [] job.state = "running" /\ job.left = 0 -> {"finish"}
      [] OTHER -> {}

\* The fields _set_job writes for an update.
UpdatedJob(job, kind) ==
    CASE kind = "running" -> SetJob(job, "running", NULL)
      [] kind = "item" -> SetJob([job EXCEPT !.left = job.left - 1], "keep", job.failed)
      [] kind = "raise" ->
            SetJob([job EXCEPT !.outcome = "raised"], RunnerState("raised"), NULL)
      [] OTHER ->
            SetJob([job EXCEPT !.outcome = "returned"], RunnerState("returned"), NULL)

\* The job thread calls _set_job.
PubCall(kind) ==
    /\ pub.pc = "idle"
    /\ kind \in UpdateKinds(jobs[SseJob])
    /\ pub' = [pub EXCEPT !.pc = "lock", !.kind = kind]
    /\ UNCHANGED <<subscribers, queues, lock, subLock, sub>>
    /\ UNCHANGED <<ingestVars, labelVars, jobVars, archiveVars, restVars>>

\* _set_job: `with _lock:`, the field writes and the payload.
PubLock ==
    /\ pub.pc = "lock"
    /\ lock = "none"
    /\ LET job == UpdatedJob(jobs[SseJob], pub.kind)
       IN /\ jobs' = [jobs EXCEPT ![SseJob] = job]
          /\ pub' = [pub EXCEPT !.pc = "subs", !.payload = Payload(job)]
    /\ lock' = Worker
    /\ UNCHANGED <<subscribers, queues, subLock, sub>>
    /\ UNCHANGED <<ingestVars, labelVars, archiveVars, restVars>>

\* _broadcast: `with _sub_lock: subs = list(...)`.
PubSnapshot ==
    /\ pub.pc = "subs"
    /\ subLock = "none"
    /\ pub' = [pub EXCEPT !.pc = IF subscribers = {} THEN "unlock" ELSE "put",
                          !.todo = SubsList(subscribers)]
    /\ UNCHANGED <<subscribers, queues, lock, subLock, sub>>
    /\ UNCHANGED <<ingestVars, labelVars, jobVars, archiveVars, restVars>>

\* The loop moves on to the next queue of the copy.
NextQueue == 
    [pub EXCEPT !.todo = Tail(pub.todo),
                !.pc = IF Len(pub.todo) = 1 THEN "unlock" ELSE "put"]

\* _broadcast: the first q.put_nowait(payload).
PubPut ==
    /\ pub.pc = "put"
    /\ LET s == Head(pub.todo)
       IN /\ PutReturns(queues[s])
          /\ IF Full(queues[s])
             THEN /\ pub' = [pub EXCEPT !.pc = "drop"]
                  /\ UNCHANGED queues
             ELSE /\ queues' = [queues EXCEPT ![s] = Append(@, pub.payload)]
                  /\ pub' = NextQueue
    /\ UNCHANGED <<subscribers, lock, subLock, sub>>
    /\ UNCHANGED <<ingestVars, labelVars, jobVars, archiveVars, restVars>>

\* A broadcast that retries without making room.
PubSkipDrop ==
    /\ pub.pc = "drop"
    /\ pub' = [pub EXCEPT !.pc = "reput"]
    /\ UNCHANGED <<subscribers, queues, lock, subLock, sub>>
    /\ UNCHANGED <<ingestVars, labelVars, jobVars, archiveVars, restVars>>

\* _broadcast, `except queue.Full:` "Drop oldest and retry once."
PubDrop ==
    /\ pub.pc = "drop"
    /\ queues' = [queues EXCEPT ![Head(pub.todo)] = DropOldest(@)]
    /\ pub' = [pub EXCEPT !.pc = "reput"]
    /\ UNCHANGED <<subscribers, lock, subLock, sub>>
    /\ UNCHANGED <<ingestVars, labelVars, jobVars, archiveVars, restVars>>

\* _broadcast: the second q.put_nowait(payload); "Still full, drop this
\* update."
PubReput ==
    /\ pub.pc = "reput"
    /\ LET s == Head(pub.todo)
       IN /\ PutReturns(queues[s])
          /\ queues' = IF Full(queues[s]) THEN queues
                        ELSE [queues EXCEPT ![s] = Append(@, pub.payload)]
    /\ pub' = NextQueue
    /\ UNCHANGED <<subscribers, lock, subLock, sub>>
    /\ UNCHANGED <<ingestVars, labelVars, jobVars, archiveVars, restVars>>

\* _set_job returns: _lock is released.
PubUnlock ==
    /\ pub.pc = "unlock"
    /\ lock' = "none"
    /\ pub' = IdlePub
    /\ UNCHANGED <<subscribers, queues, subLock, sub>>
    /\ UNCHANGED <<ingestVars, labelVars, jobVars, archiveVars, restVars>>

\* job_events: `with _lock:` entered.
SubConnect(s) ==
    /\ sub[s].pc = "out"
    /\ lock = "none"
    /\ lock' = s
    /\ sub' = [sub EXCEPT ![s].pc = "lookup"]
    /\ UNCHANGED <<subscribers, queues, subLock, pub>>
    /\ UNCHANGED <<ingestVars, labelVars, jobVars, archiveVars, restVars>>

\* job_events: job = _jobs.get(job_id); 404 when the job is unknown.
SubLookup(s) ==
    /\ sub[s].pc = "lookup"
    /\ lock' = "none"
    /\ sub' = [sub EXCEPT ![s].pc = IF jobs[SseJob].state = "none" THEN "out"
                                    ELSE "found"]
    /\ UNCHANGED <<subscribers, queues, subLock, pub>>
    /\ UNCHANGED <<ingestVars, labelVars, jobVars, archiveVars, restVars>>

\* _subscribe: a new queue, `with _sub_lock:` entered. The new queue is no
\* queue a running broadcast has in its copy.
SubSubscribeLock(s) ==
    /\ sub[s].pc = "found"
    /\ subLock = "none"
    /\ \A i \in 1..Len(pub.todo) : pub.todo[i] # s
    /\ subLock' = s
    /\ queues' = [queues EXCEPT ![s] = <<>>]
    /\ sub' = [sub EXCEPT ![s].pc = "subscribing"]
    /\ UNCHANGED <<subscribers, lock, pub>>
    /\ UNCHANGED <<ingestVars, labelVars, jobVars, archiveVars, restVars>>

\* _subscribe: the queue is added to the job's set.
SubSubscribe(s) ==
    /\ sub[s].pc = "subscribing"
    /\ subscribers' = subscribers \cup {s}
    /\ subLock' = "none"
    /\ sub' = [sub EXCEPT ![s].pc = "connected"]
    /\ UNCHANGED <<queues, lock, pub>>
    /\ UNCHANGED <<ingestVars, labelVars, jobVars, archiveVars, restVars>>

\* gen: "Emit the current snapshot immediately", `with _lock:` entered.
SubSnapshotLock(s) ==
    /\ sub[s].pc = "connected"
    /\ lock = "none"
    /\ lock' = s
    /\ sub' = [sub EXCEPT ![s].pc = "snapshot"]
    /\ UNCHANGED <<subscribers, queues, subLock, pub>>
    /\ UNCHANGED <<ingestVars, labelVars, jobVars, archiveVars, restVars>>

\* gen: the current status is sent as the first event.
SubSnapshot(s) ==
    /\ sub[s].pc = "snapshot"
    /\ lock' = "none"
    /\ sub' = [sub EXCEPT ![s].pc = "read", ![s].got = Payload(jobs[SseJob])[1]]
    /\ UNCHANGED <<subscribers, queues, subLock, pub>>
    /\ UNCHANGED <<ingestVars, labelVars, jobVars, archiveVars, restVars>>

\* gen: q.get(timeout=15.0) returns the oldest pending event, which is sent.
\* (On queue.Empty a keep-alive comment is sent and nothing changes.)
SubRead(s) ==
    /\ sub[s].pc = "read"
    /\ queues[s] # <<>>
    /\ queues' = [queues EXCEPT ![s] = Tail(@)]
    /\ sub' = [sub EXCEPT ![s].got = Head(queues[s])[1]]
    /\ UNCHANGED <<subscribers, lock, subLock, pub>>
    /\ UNCHANGED <<ingestVars, labelVars, jobVars, archiveVars, restVars>>

\* The client goes away: gen's `finally:` runs _unsubscribe, `with
\* _sub_lock:` entered.
SubClose(s) ==
    /\ sub[s].pc = "read"
    /\ subLock = "none"
    /\ subLock' = s
    /\ sub' = [sub EXCEPT ![s].pc = "closing"]
    /\ UNCHANGED <<subscribers, queues, lock, pub>>
    /\ UNCHANGED <<ingestVars, labelVars, jobVars, archiveVars, restVars>>

\* _unsubscribe: the queue is discarded from the job's set.
SubUnsubscribe(s) ==
    /\ sub[s].pc = "closing"
    /\ subscribers' = subscribers \ {s}
    /\ subLock' = "none"
    /\ sub' = [sub EXCEPT ![s] = IdleSub]
    /\ UNCHANGED <<queues, lock, pub>>
    /\ UNCHANGED <<ingestVars, labelVars, jobVars, archiveVars, restVars>>

\* =====================================================================
\* The labeling decision (app/labeling/labeler.py)
\* =====================================================================

\* Two seeded Tier-2 names (TIER2_SEED), one under each modelled category.
Tier2Seed == {<<"Financial", "Invoices & Bills">>, <<"Commercial & Marketing", "Newsletters">>}

\* str.startswith
StartsWith(s, p) == Len(s) >= Len(p) /\ SubSeq(s, 1, Len(p)) = p

\* `p in s`
Contains(s, p) ==
    \E i \in 1..(Len(s) - Len(p) + 1) : SubSeq(s, i, i + Len(p) - 1) = p

\* s with its first n characters removed.
Drop(s, n) == SubSeq(s, n + 1, Len(s))

\* str.splitlines (the responses break lines with \n).
RECURSIVE SplitLines(_)
SplitLines(s) ==
    IF s = "" THEN <<>>
    ELSE IF ~Contains(s, "\n") THEN <<s>>
    ELSE LET i == CHOOSE k \in 1..Len(s) :
                      /\ SubSeq(s, k, k) = "\n"
                      /\ \A j \in 1..(k - 1) : SubSeq(s, j, j) # "\n"
         IN <<SubSeq(s, 1, i - 1)>> \o SplitLines(Drop(s, i))

\* The run of characters of the set at the start of s.
RECURSIVE SpanLen(_, _)
SpanLen(s, set) == IF s # "" /\ Head(s) \in set THEN 1 + SpanLen(Tail(s), set) ELSE 0

\* The keyword alternatives of _PREFIX_RE at the start of a casefolded s:
\* the number of characters the alternative takes, 0 when none matches.
\* An alternative counts only when `\s*:` follows it.
PrefixKeywordLen(s) ==
    LET colonAfter(n) == StartsWith(LStrip(Drop(s, n)), ":")
        tier(digit, word) ==
            IF ~StartsWith(s, "tier") THEN 0
            ELSE LET a == 4 + SpanLen(Drop(s, 4), {" ", "\t", "\n", "-"})
                 IN IF ~StartsWith(Drop(s, a), digit) THEN 0
                    ELSE LET b == a + 1
                             c == b + SpanLen(Drop(s, b), {" ", "\t", "\n"})
                         IN IF StartsWith(Drop(s, c), word) /\ colonAfter(c + Len(word))
                            THEN c + Len(word)
                            ELSE IF colonAfter(b) THEN b ELSE 0
    IN IF StartsWith(s, "category") /\ colonAfter(8) THEN 8
       ELSE IF StartsWith(s, "subcategory") /\ colonAfter(11) THEN 11
       ELSE IF tier("1", "category") > 0 THEN tier("1", "category")
       ELSE tier("2", "subcategory")

\* _PREFIX_RE.sub("", line): leading blanks, a keyword, blanks, the colon
\* and the blanks after it are removed.
StripPrefix(line) ==
    LET lead == SpanLen(line, {" ", "\t", "\n"})
        rest == Drop(line, lead)
        n == PrefixKeywordLen(Casefold(rest))
    IN IF n = 0 THEN line
       ELSE LET after == LStrip(Drop(rest, n))
            IN LStrip(Drop(after, 1))

\* _BULLET_RE.sub("", s): leading blanks, then a run of - or *, or digits
\* followed by . or ), then the blanks after it.
StripBullet(s) ==
    LET rest == LStrip(s)
        marks == SpanLen(rest, {"-", "*"})
        digits == SpanLen(rest, Digits)
    IN IF marks > 0 THEN LStrip(Drop(rest, marks))
       ELSE IF digits > 0 /\ (StartsWith(Drop(rest, digits), ".")
                               \/ StartsWith(Drop(rest, digits), ")"))
            THEN LStrip(Drop(rest, digits + 1))
       ELSE s

\* _normalize_response_line
NormalizeResponseLine(line) == Strip(StripBullet(Strip(StripPrefix(line))))

\* _FORBIDDEN_SUBCATEGORY_PREFIXES
ForbiddenSubcategoryPrefixes ==
    {"note:", "notes:", "reason:", "because:", "explanation:", "rationale:"}

\* A check of the prefixes that lets every name through.
NoForbiddenPrefix(folded) == FALSE

\* any(folded.startswith(p) for p in _FORBIDDEN_SUBCATEGORY_PREFIXES)
HasForbiddenPrefix(folded) ==
    \E p \in ForbiddenSubcategoryPrefixes : StartsWith(folded, p)

\* _sanitize_subcategory_name: <<cleaned name or NoSub, reject reason>>
\* ("none": not rejected).
SanitizeSubcategoryName(candidate) ==
    IF candidate = NoSub THEN <<NoSub, "none">>
    ELSE IF Strip(candidate) = "" THEN <<NoSub, "empty">>
    ELSE LET s == NormalizeResponseLine(Strip(candidate))
             folded == Casefold(s)
         IN IF HasForbiddenPrefix(folded) THEN <<NoSub, "meta_note_prefix">>
            ELSE IF Contains(folded, "chosen categories") /\ Contains(folded, "match")
                 THEN <<NoSub, "meta_explanation">>
            ELSE IF Contains(s, "\n") THEN <<NoSub, "multiline">>
            ELSE IF Len(s) > MaxTier2NameLen THEN <<NoSub, "too_long">>
            ELSE <<s, "none">>

\* tier2_options as the pipelines pass it (list_tier2_options): the names
\* under a category, seeded or added by earlier decisions.
Tier2Options(category) == {t[2] : t \in {u \in Tier2Seed \cup tier2 : u[1] = category}}

\* _tier2_match_for_category: the stored spelling of the candidate, NoSub
\* when the category has no such name.
Tier2MatchForCategory(category, candidate) ==
    LET cand == Strip(candidate)
        hits == {s \in Tier2Options(category) : Casefold(s) = Casefold(cand)}
    IN IF cand = "" \/ hits = {} THEN NoSub ELSE CHOOSE s \in hits : TRUE

\* _tier2_to_tier1: <<category, stored spelling>> of a line that is a Tier-2
\* name, NoResult otherwise.
Tier2ToTier1(line) ==
    LET cand == Strip(line)
        hits == {t \in Tier2Seed \cup tier2 : Casefold(t[2]) = Casefold(cand)}
    IN IF cand = "" \/ hits = {} THEN NoResult ELSE CHOOSE t \in hits : TRUE

\* The non-empty normalized lines of a response.
RECURSIVE ResponseLines(_)
ResponseLines(lines) ==
    IF lines = <<>> THEN <<>>
    ELSE LET l == NormalizeResponseLine(Head(lines))
         IN (IF l = "" THEN <<>> ELSE <<l>>) \o ResponseLines(Tail(lines))

\* The first index at which the test holds, 0 when it holds nowhere.
FirstLine(lines, Test(_)) ==
    IF \E i \in 1..Len(lines) : Test(lines[i])
    THEN CHOOSE i \in 1..Len(lines) :
             Test(lines[i]) /\ \A j \in 1..(i - 1) : ~Test(lines[j])
    ELSE 0

\* Step 1 of the parse: the line is a Tier-1 category (casefolded).
ExactTier1(l) == \E c \in Tier1 : Casefold(l) = Casefold(c)

\* Step 2 of the parse: the line mentions a Tier-1 category.
WithinTier1(l) == \E c \in Tier1 : Contains(Casefold(l), Casefold(c))

\* The fallback of the parse: the line is a known Tier-2 name.
KnownTier2(l) == Tier2ToTier1(l) # NoResult

\* category_idx (counted from 1; 0: no line names a category).
CategoryIndex(lines) ==
    IF FirstLine(lines, ExactTier1) > 0 THEN FirstLine(lines, ExactTier1)
    ELSE FirstLine(lines, WithinTier1)

\* The category found at category_idx, in the spelling of TIER1_CATEGORIES.
CategoryAt(lines, idx) ==
    IF ExactTier1(lines[idx])
    THEN CHOOSE c \in Tier1 : Casefold(lines[idx]) = Casefold(c)
    ELSE CHOOSE c \in Tier1 : Contains(Casefold(lines[idx]), Casefold(c))

\* The line after the category, unless it says none.
SubcategoryBelow(lines, idx) ==
    IF idx < Len(lines) /\ Casefold(Strip(lines[idx + 1])) \notin {"none", "null", "(none)"}
    THEN Strip(lines[idx + 1])
    ELSE NoSub

\* "the model outputs Tier-2 then Tier-1": with no subcategory below, a
\* known Tier-2 name of the category in the line above is taken.
SubcategoryAbove(lines, idx, category, below) ==
    IF below = NoSub /\ idx > 1 THEN Tier2MatchForCategory(category, lines[idx - 1])
    ELSE below

\* The stored spelling of a known Tier-2 name is preferred.
Canonical(category, subcategory) ==
    IF subcategory = NoSub THEN NoSub
    ELSE IF Tier2MatchForCategory(category, subcategory) # NoSub
         THEN Tier2MatchForCategory(category, subcategory)
    ELSE subcategory

\* The result when a line names a category.
ParseAt(lines, idx) ==
    <<CategoryAt(lines, idx),
      Canonical(CategoryAt(lines, idx),
                SubcategoryAbove(lines, idx, CategoryAt(lines, idx),
                                 SubcategoryBelow(lines, idx)))>>

\* _parse_multiline_label_response over the cleaned lines:
\* <<category, subcategory>>, or <<"ValueError", NoSub>> when it raises (no
\* line, or no Tier-1 category and no known Tier-2 name).
ParseLines(lines) ==
    IF lines = <<>> THEN <<"ValueError", NoSub>>
    ELSE IF CategoryIndex(lines) > 0 THEN ParseAt(lines, CategoryIndex(lines))
    ELSE IF FirstLine(lines, KnownTier2) > 0
         THEN Tier2ToTier1(lines[FirstLine(lines, KnownTier2)])
    ELSE <<"ValueError", NoSub>>

\* _parse_multiline_label_response
ParseMultilineLabelResponse(raw) == ParseLines(ResponseLines(SplitLines(raw)))

\* validate_tier1_category
ValidateTier1Category(category) == category \in Tier1

\* What the model can answer: the contract's two lines, answers with
\* prefixes and bullets, notes and explanations in the second line, an
\* 81-character second line, a Tier-2 name alone or above the category,
\* and answers with no category. No line cleans to the text None, which
\* stands for SQL NULL in the stores.
Responses ==
    {"Financial\nUtility Bills",
     "Financial\nNone",
     "Financial",
     "Financial\nNote: chosen categories match",
     "Financial\nNote: see above",
     "Financial\nThe chosen categories match the sender",
     "Financial\nRecurring household utility charges for electricity gas water and broadband lines",
     "Category: Financial\nSubcategory: Utility Bills",
     "Tier-1 Category: Financial\nTier 2 Subcategory: Bank Fees",
     "Financial\n- 1.",
     "Financial\n- - - Note: see above",
     "Financial\n* Reason: it is a bill",
     "invoices & bills",
     "Invoices & Bills\nFinancial",
     "I think Financial fits best\nBank Fees",
     "Commercial & Marketing\nnull",
     "Pizza",
     "",
     " - \n: \n"}

IdleDecision ==
    [pc |-> "idle", calls |-> 0, strict |-> FALSE, raw |-> "", raws |-> <<>>,
     reasons |-> <<>>, result |-> NoResult]

\* A fallback that keeps the rejected candidate.
KeepCandidate(category, candidate) == <<category, candidate>>

\* label, attempt 1 rejected: LabelResult(category=category, subcategory=None).
FallbackResult(category, candidate) == <<category, NoSub>>

\* label: _call_model(prompt) returns a response (stripped). The first call
\* uses base_prompt, the call after a rejection the stricter prompt.
ModelCall(l, raw) ==
    /\ lab[l].pc = "label"
    /\ dec.pc \in {"idle", "retry"}
    /\ dec' = [dec EXCEPT !.pc = "parse", !.calls = dec.calls + 1, !.raw = Strip(raw),
                          !.raws = Append(@, raw)]
    /\ UNCHANGED <<ingestVars, labelVars, jobVars, archiveVars, sseVars, clusterVars,
                   calendarVars, laterVars>>

\* _call_model raises (Ollama is down or times out): label raises.
ModelFail(l) ==
    /\ lab[l].pc = "label"
    /\ dec.pc \in {"idle", "retry"}
    /\ dec' = [dec EXCEPT !.pc = "raised", !.calls = dec.calls + 1]
    /\ UNCHANGED <<ingestVars, labelVars, jobVars, archiveVars, sseVars, clusterVars,
                   calendarVars, laterVars>>

\* label, the rest of one attempt, given the parsed response and the
\* sanitized subcategory: raise, return, retry once with the stricter
\* prompt, or fall back to the category alone.
Decide(d, parsed, clean) ==
    IF ~ValidateTier1Category(parsed[1])
    THEN [d EXCEPT !.pc = "raised"]
    ELSE IF clean[2] = "none"
    THEN [d EXCEPT !.pc = "done", !.result = <<parsed[1], clean[1]>>,
                   !.reasons = Append(@, "none")]
    ELSE IF Len(d.reasons) = 0
    THEN [d EXCEPT !.pc = "retry", !.strict = TRUE, !.reasons = Append(@, clean[2])]
    ELSE [d EXCEPT !.pc = "done", !.result = FallbackResult(parsed[1], parsed[2]),
                   !.reasons = Append(@, clean[2])]

\* label: parse, validate, sanitize, decide.
DecisionParse ==
    /\ dec.pc = "parse"
    /\ dec' = Decide(dec, ParseMultilineLabelResponse(dec.raw),
                     SanitizeSubcategoryName(ParseMultilineLabelResponse(dec.raw)[2]))
    /\ UNCHANGED <<ingestVars, labelVars, jobVars, archiveVars, sseVars, clusterVars,
                   calendarVars, laterVars>>

\* The pipelines, after labeler.label: validate_tier1_category and
\* `subcategory = str(subcategory).strip() or None`.
PipelineResult(res) ==
    <<res[1], IF res[2] = NoSub \/ Strip(res[2]) = "" THEN NoSub ELSE Strip(res[2])>>

\* The iteration that asked for the decision has stored its result (or
\* caught the exception); nothing of the decision is left.
DecisionEnd(l) ==
    /\ dec.pc \in {"done", "raised"}
    /\ lab[l].pc \notin {"label", "update"}
    /\ dec' = IdleDecision
    /\ UNCHANGED <<ingestVars, labelVars, jobVars, archiveVars, sseVars, clusterVars,
                   calendarVars, laterVars>>


\* =====================================================================
\* Cluster identity (app/settings.py, app/clustering/pipeline.py _cluster_id,
\* app/repository/email_query_repository.py insert_cluster)
\* =====================================================================

\* The similarity thresholds (hundredths) and labeler versions the service
\* is deployed with.
Thresholds == {SimilarityThreshold, 90}

LabelVersions == {LabelVersion, "tier2-v2"}

\* The service is restarted with other settings (EMAIL_INTEL_* environment)
\* while no labeling run is under way.
Reconfigure(threshold, version) ==
    /\ \A l \in Labelers : lab[l].pc \in {"idle", "done", "aborted"}
    /\ settings # [threshold |-> threshold, version |-> version]
    /\ settings' = [threshold |-> threshold, version |-> version]
    /\ UNCHANGED <<ingestVars, labelVars, jobVars, archiveVars, sseVars, dec, clusters,
                   calendarVars, laterVars>>

\* =====================================================================
\* Calendar publish (app/api/events.py post_calendar_publish)
\* =====================================================================

\* The messages with an extracted event (status succeeded, with a date), the
\* requests that can run at once, and the most events the calendar takes.
CalMsgs == {1, 2}

Publishers == {"p1", "p2"}

MaxCalendarEvents == 3

IdleReq == [pc |-> "idle", msg |-> 0, uid |-> "", found |-> 0, created |-> 0]

\* _ical_uid_for_message
IcalUidForMessage(m) == "email-intel-" \o ToString(m) \o "@email-manager-agent.local"

\* events().list(iCalUID=uid, maxResults=1, showDeleted=False): the events
\* of the calendar with that iCalUID.
EventsWithUid(uid) == {e \in calendar : e.uid = uid}

\* set_calendar_status: the row after the UPDATE (COALESCE keeps a stored
\* iCalUID and publish time when the argument is NULL).
SetCalendarStatus(m, uid, event, published) ==
    [eventRow EXCEPT ![m] = [uid |-> uid, event |-> event,
                             published |-> published \/ eventRow[m].published]]

\* The request reads the event row (it exists, succeeded, has a date) and
\* takes the stored iCalUID, or computes it.
PublishBegin(p, m) ==
    /\ req[p].pc = "idle"
    /\ req' = [req EXCEPT ![p] = [IdleReq EXCEPT !.pc = "list", !.msg = m,
                  !.uid = IF eventRow[m].uid # "" THEN eventRow[m].uid
                          ELSE IcalUidForMessage(m)]]
    /\ UNCHANGED <<calendar, eventRow>>
    /\ UNCHANGED <<ingestVars, labelVars, jobVars, archiveVars, sseVars, dec, clusterVars,
                   laterVars>>

\* "First, check if it already exists": the list call returns.
PublishList(p) ==
    /\ req[p].pc = "list"
    /\ \/ /\ EventsWithUid(req[p].uid) = {}
          /\ req' = [req EXCEPT ![p].pc = "insert"]
       \/ \E e \in EventsWithUid(req[p].uid) :
             req' = [req EXCEPT ![p].pc = "existing", ![p].found = e.id]
    /\ UNCHANGED <<calendar, eventRow>>
    /\ UNCHANGED <<ingestVars, labelVars, jobVars, archiveVars, sseVars, dec, clusterVars,
                   laterVars>>

\* An event was found: set_calendar_status, and the response says
\* already_existed.
PublishExisting(p) ==
    /\ req[p].pc = "existing"
    /\ eventRow' = SetCalendarStatus(req[p].msg, req[p].uid, req[p].found, FALSE)
    /\ req' = [req EXCEPT ![p] = IdleReq]
    /\ UNCHANGED calendar
    /\ UNCHANGED <<ingestVars, labelVars, jobVars, archiveVars, sseVars, dec, clusterVars,
                   laterVars>>

\* events().insert(body) returns the created event. The request sends the
\* event whatever the calendar holds by now.
PublishInsert(p) ==
    /\ req[p].pc = "insert"
    /\ Cardinality(calendar) < MaxCalendarEvents
    /\ LET id == Cardinality(calendar) + 1 IN
       /\ calendar' = calendar \cup {[id |-> id, uid |-> req[p].uid]}
       /\ req' = [req EXCEPT ![p].pc = "record", ![p].created = id]
    /\ UNCHANGED eventRow
    /\ UNCHANGED <<ingestVars, labelVars, jobVars, archiveVars, sseVars, dec, clusterVars,
                   laterVars>>

\* The list or the insert raises (the calendar service refuses or cannot
\* be reached): HTTP 502, nothing is written.
PublishFail(p) ==
    /\ req[p].pc \in {"list", "insert"}
    /\ req' = [req EXCEPT ![p] = IdleReq]
    /\ UNCHANGED <<calendar, eventRow>>
    /\ UNCHANGED <<ingestVars, labelVars, jobVars, archiveVars, sseVars, dec, clusterVars,
                   laterVars>>

\* After the insert: set_calendar_status with the new event id and the
\* publish time.
PublishRecord(p) ==
    /\ req[p].pc = "record"
    /\ eventRow' = SetCalendarStatus(req[p].msg, req[p].uid, req[p].created, TRUE)
    /\ req' = [req EXCEPT ![p] = IdleReq]
    /\ UNCHANGED calendar
    /\ UNCHANGED <<ingestVars, labelVars, jobVars, archiveVars, sseVars, dec, clusterVars,
                   laterVars>>

\* ==========================================================================
\* Automatic labeling mode and the maintenance run
\* (app/api/jobs.py start_label_auto, app/maintenance.py run_maintenance)
\* ==========================================================================

\* threshold of POST /jobs/label/auto and label_threshold of a maintenance run.
AutoThresholds == 1..(MaxLabelMsgs + 1)

\* Cutoffs of a maintenance run: the checkpoint before the run, or now - fallback_days.
MaintCutoffs == 1..MaxLabelMsgs

NoChoice == [by |-> "none", total |-> 0, threshold |-> 0, mode |-> "none"]

IdleMaint == [pc |-> "idle", steps |-> <<>>, threshold |-> 0, cutoff |-> 0]

\* The steps of run_maintenance in the order of its body.
MaintenanceSteps ==
    <<"ingest", "label", "label_push", "retention_archive", "inbox_aging",
      "event_extract", "payment_extract">>

\* The steps after labeling, each entered from the one before.
StepsAfterLabel ==
    {"label_push", "retention_archive", "inbox_aging", "event_extract", "payment_extract"}

StepAfter(step) ==
    CASE step = "label_push" -> "retention_archive"
      [] step = "retention_archive" -> "inbox_aging"
      [] step = "inbox_aging" -> "event_extract"
      [] step = "event_extract" -> "payment_extract"
      [] OTHER -> "done"

\* count_unlabelled: rows with category IS NULL.
CountUnlabelled == Cardinality(UnlabelledRows)

\* count_unlabelled_since: those with internal_date >= received_since.
CountUnlabelledSince(since) == Cardinality({m \in UnlabelledRows : TS(m) >= since})

\* The fields the Settings class declares, of those run_maintenance reads
\* before its first step (extra="ignore": no other attribute exists).
SettingsFields ==
    {"gmail_user_id", "similarity_threshold", "label_version", "ollama_host",
     "ollama_model"}

\* The attributes run_maintenance reads when the caller gave no values.
MaintenanceDefaults ==
    {"inbox_cleanup_days", "maintenance_label_threshold", "maintenance_fallback_days"}

\* The keyword-only parameters of label_unlabelled_individual.
LabelIndividualParams ==
    {"engine", "service", "user_id", "similarity_threshold", "label_version",
     "ollama_host", "ollama_model", "max_emails", "progress_hook"}

\* The keywords run_maintenance passes to label_unlabelled_individual.
MaintenanceLabelKeywords ==
    {"engine", "service", "user_id", "similarity_threshold", "label_version",
     "ollama_host", "ollama_model", "received_since", "max_emails", "progress_hook"}

\* A call binds when every keyword names a parameter; else it raises TypeError.
CallBinds(keywords, params) == keywords \subseteq params

\* start_label_auto's task: nothing for no unlabelled row, the per-message
\* labeler below the threshold, the cluster engine otherwise.
LabelAutoMode(total, threshold) ==
    IF total <= 0 THEN "none"
    ELSE IF total < threshold THEN "individual"
    ELSE "cluster"

\* run_maintenance's labeling step: the per-message labeler whenever a row
\* is unlabelled; label_threshold is not read.
MaintenanceLabelMode(total, threshold) ==
    IF total > 0 THEN "individual" ELSE "none"

\* POST /jobs/label/auto: the task counts the unlabelled rows and starts the
\* run of the chosen mode.
StartLabelAuto(l, threshold) ==
    /\ lab[l].pc \in {"idle", "done", "aborted"}
    /\ maint.pc \in {"idle", "done", "raised"}
    /\ LET total == CountUnlabelled
           mode == LabelAutoMode(total, threshold) IN
       /\ auto' = [by |-> "label_auto", total |-> total, threshold |-> threshold,
                   mode |-> mode]
       /\ lab' = IF mode = "none" THEN lab
                 ELSE [lab EXCEPT ![l] = [IdleLab EXCEPT !.pc = "fetch", !.mode = mode]]
    /\ UNCHANGED <<email, tier2, assign, outbox, gmail, drain, maint>>
    /\ UNCHANGED ingestVars
    /\ UNCHANGED <<jobVars, archiveVars, sseVars, dec, clusterVars, calendarVars, utilVars, markerVars>>

\* run_maintenance up to its first step: the three optional values come from
\* the caller or from the settings object; the cutoff is the checkpoint, or
\* the fallback time, which is then written as the checkpoint.
MaintBegin(given, threshold, cutoff) ==
    /\ maint.pc \in {"idle", "done", "raised"}
    /\ \A l \in Labelers : lab[l].pc \in {"idle", "done", "aborted"}
    /\ IF ~given /\ ~(MaintenanceDefaults \subseteq SettingsFields) THEN
           /\ maint' = [IdleMaint EXCEPT !.pc = "raised"]
           /\ checkpoint' = checkpoint
       ELSE
           /\ checkpoint # NULL => cutoff = checkpoint
           /\ checkpoint' = IF checkpoint = NULL THEN SetCheckpoint(cutoff) ELSE checkpoint
           /\ maint' = [pc |-> "ingest", steps |-> <<>>, threshold |-> threshold,
                        cutoff |-> cutoff]
    /\ UNCHANGED <<store, vindex, run, auto>>
    /\ UNCHANGED labelVars
    /\ UNCHANGED <<jobVars, archiveVars, sseVars, dec, clusterVars, calendarVars, utilVars, markerVars>>

\* Step 1, ingest_metadata: the new messages are persisted.
MaintIngest(new) ==
    /\ maint.pc = "ingest"
    /\ new \cap store = {}
    /\ store' = store \cup new
    /\ vindex' = vindex \cup new
    /\ email' = [m \in LMsgs |-> IF m \in new THEN InsertEmailColumns(email, m)[m]
                                 ELSE email[m]]
    /\ maint' = [maint EXCEPT !.pc = "label", !.steps = Append(@, "ingest")]
    /\ UNCHANGED <<checkpoint, run, tier2, assign, outbox, gmail, lab, drain, auto>>
    /\ UNCHANGED <<jobVars, archiveVars, sseVars, dec, clusterVars, calendarVars, utilVars, markerVars>>

\* Step 2: the rows unlabelled since the cutoff are counted; if there are
\* any, label_unlabelled_individual is called with the keywords above and
\* the run goes on when it returned.
MaintLabel(l) ==
    /\ maint.pc = "label"
    /\ LET total == CountUnlabelledSince(maint.cutoff)
           mode == MaintenanceLabelMode(total, maint.threshold) IN
       /\ auto' = [by |-> "maintenance", total |-> total, threshold |-> maint.threshold,
                   mode |-> mode]
       /\ IF mode = "none" THEN
              /\ maint' = [maint EXCEPT !.pc = "label_push", !.steps = Append(@, "label")]
              /\ lab' = lab
          ELSE IF CallBinds(MaintenanceLabelKeywords, LabelIndividualParams) THEN
              /\ maint' = [maint EXCEPT !.pc = "label_push", !.steps = Append(@, "label")]
              /\ lab' = [lab EXCEPT ![l] = [IdleLab EXCEPT !.pc = "fetch", !.mode = mode]]
          ELSE
              /\ maint' = [maint EXCEPT !.pc = "raised"]
              /\ lab' = lab
    /\ UNCHANGED <<email, tier2, assign, outbox, gmail, drain>>
    /\ UNCHANGED ingestVars
    /\ UNCHANGED <<jobVars, archiveVars, sseVars, dec, clusterVars, calendarVars, utilVars, markerVars>>

\* Steps 3 to 7, each run to its end in the order of the body (the label
\* push after the labeler returned); the last one ends the run.
MaintStep(step) ==
    /\ maint.pc = step
    /\ step \in StepsAfterLabel
    /\ \A l \in Labelers : lab[l].pc \in {"idle", "done", "aborted"}
    /\ maint' = [maint EXCEPT !.pc = StepAfter(step), !.steps = Append(@, step)]
    /\ UNCHANGED auto
    /\ UNCHANGED ingestVars
    /\ UNCHANGED labelVars
    /\ UNCHANGED <<jobVars, archiveVars, sseVars, dec, clusterVars, calendarVars, utilVars, markerVars>>

\* ==========================================================================
\* Pure helpers: body sample count, subject normalization, payment fingerprint
\* (app/clustering/pipeline.py, app/utils/subject.py,
\*  app/analysis/payments/extractor.py)
\* ==========================================================================

\* The largest cluster size sampled in the model (above every threshold of
\* _sample_count).
MaxClusterSize == 60

\* The sample count with the ranges at most 5, 6 to 10, 11 to 50, above 50.
SampleCountClosedRanges(cluster_size) ==
    IF cluster_size > 50 THEN 4
    ELSE IF cluster_size > 10 THEN 3
    ELSE IF cluster_size > 5 THEN 2
    ELSE 1

\* _sample_count
SampleCount(cluster_size) ==
    IF cluster_size > 50 THEN 4
    ELSE IF 10 <= cluster_size /\ cluster_size <= 50 THEN 3
    ELSE IF 5 <= cluster_size /\ cluster_size <= 10 THEN 2
    ELSE 1

NoSample == [size |-> 0, count |-> 0]

\* cluster_and_label, Phase 2B: rng.sample(sample_ids, k=min(sample_n, len(sample_ids)))
\* for a cluster of the given size; count is the number of sampled ids.
SampleBodies(size) ==
    /\ LET sample_n == SampleCount(size) IN
       samp' = [size |-> size, count |-> IF sample_n < size THEN sample_n ELSE size]
    /\ UNCHANGED <<subj, pay>>
    /\ UNCHANGED <<ingestVars, labelVars, jobVars, archiveVars, sseVars, dec, clusterVars,
                   calendarVars, autoVars, markerVars>>

\* An optional string: None, or the string s.
None == <<>>

Some(s) == <<s>>

\* The length of the match of RE_PREFIX (^(re:|fwd:|fw:), IGNORECASE) at the
\* start of s, without the whitespace after it; 0 for no match.
RePrefixLen(s) ==
    LET folded == Casefold(s) IN
    IF StartsWith(folded, "re:") THEN 3
    ELSE IF StartsWith(folded, "fwd:") THEN 4
    ELSE IF StartsWith(folded, "fw:") THEN 3
    ELSE 0

\* RE_PREFIX.sub("", s): the pattern is anchored at the start of the string,
\* so the one match there is removed, with the whitespace that follows it.
RePrefixSub(s) ==
    LET n == RePrefixLen(s) IN
    IF n = 0 THEN s ELSE LStrip(SubSeq(s, n + 1, Len(s)))

\* normalize_subject; the subject "" stands for None as well (`not subject`).
NormalizeSubject(subject) ==
    IF subject = "" THEN None
    ELSE Some(RePrefixSub(Casefold(Strip(subject))))

\* The longest chain of prefixes before a subject.
MaxPrefixes == 2

\* Reply and forward prefixes as mail clients write them.
SubjectPrefixes == {"Re: ", "Fwd: ", "FW:"}

PrefixChains == UNION {[1..n -> SubjectPrefixes] : n \in 0..MaxPrefixes}

BareSubjects == {"Hello", "hello"}

RECURSIVE Join(_)
Join(parts) == IF parts = <<>> THEN "" ELSE Head(parts) \o Join(Tail(parts))

NoSubject == [prefixes |-> <<>>, bare |-> "", out |-> None, outBare |-> None]

\* from_gmail_metadata: subject_normalized = normalize_subject(meta.subject),
\* for the subject bare behind the chain of prefixes, and for bare alone.
NormalizeSubjects(chain, bare) ==
    /\ subj' = [prefixes |-> chain, bare |-> bare,
                out |-> NormalizeSubject(Join(chain) \o bare),
                outBare |-> NormalizeSubject(bare)]
    /\ UNCHANGED <<samp, pay>>
    /\ UNCHANGED <<ingestVars, labelVars, jobVars, archiveVars, sseVars, dec, clusterVars,
                   calendarVars, autoVars, markerVars>>

\* re.sub(r"[^a-z0-9]+", "", raw)
RECURSIVE KeepAlnum(_)
KeepAlnum(raw) ==
    IF raw = "" THEN ""
    ELSE IF Head(raw) \in LowerAlnum THEN Head(raw) \o KeepAlnum(Tail(raw))
    ELSE KeepAlnum(Tail(raw))

\* _normalize_vendor_key; "" stands for None as well (the caller tests
\* `not vendor_key`).
NormalizeVendorKey(value) ==
    IF value = "" THEN ""
    ELSE KeepAlnum(Casefold(Strip(value)))

\* cost_amount.quantize(Decimal('0.01')) of an amount in thousandths, in
\* cents: the decimal context rounds half to even.
QuantizeCents(mills) ==
    LET q == mills \div 10
        r == mills % 10 IN
    IF r > 5 \/ (r = 5 /\ q % 2 = 1) THEN q + 1 ELSE q

TwoDigits(n) == IF n < 10 THEN "0" \o ToString(n) ELSE ToString(n)

\* f"{...:.2f}" of the quantized amount.
AmountKey(mills) ==
    LET cents == QuantizeCents(mills) IN
    ToString(cents \div 100) \o "." \o TwoDigits(cents % 100)

NoDate == [y |-> 0, m |-> 0, d |-> 0]

\* date.isoformat()
IsoFormat(date) ==
    ToString(date.y) \o "-" \o TwoDigits(date.m) \o "-" \o TwoDigits(date.d)

\* A fingerprint without the date.
FingerprintWithoutDate(vendor_name, cost_amount, cost_currency, payment_date) ==
    IF vendor_name = "" \/ cost_amount = NULL \/ cost_currency = "" \/ payment_date = NoDate
    THEN ""
    ELSE LET vendor_key == NormalizeVendorKey(vendor_name) IN
         IF vendor_key = "" THEN ""
         ELSE vendor_key \o "|" \o AmountKey(cost_amount) \o "|" \o cost_currency

\* _compute_fingerprint; "" is the result None.
ComputeFingerprint(vendor_name, cost_amount, cost_currency, payment_date) ==
    IF vendor_name = "" \/ cost_amount = NULL \/ cost_currency = "" \/ payment_date = NoDate
    THEN ""
    ELSE LET vendor_key == NormalizeVendorKey(vendor_name) IN
         IF vendor_key = "" THEN ""
         ELSE vendor_key \o "|" \o AmountKey(cost_amount) \o "|" \o cost_currency
                  \o "|" \o IsoFormat(payment_date)

\* Extracted values: vendor names, amounts in thousandths (NULL: none),
\* currencies ("": none) and payment dates.
Vendors == {"Acme Ltd", "acme ltd.", "Bolt", "--"}

Amounts == {12340, 12345, 12346, NULL}

Currencies == {"GBP", "USD", ""}

PaymentDates == {[y |-> 2025, m |-> 3, d |-> 2], [y |-> 2025, m |-> 3, d |-> 3]}

Extractions ==
    [vendor : Vendors, amount : Amounts, currency : Currencies, date : PaymentDates]

NoExtraction == [vendor |-> "", amount |-> NULL, currency |-> "", date |-> NoDate]

NoPayments == [a |-> NoExtraction, b |-> NoExtraction, fa |-> "", fb |-> ""]

\* extract_payment_from_email, lines 290-295: the fingerprint of the
\* normalized extraction x; pay keeps the extraction before it as well.
ExtractPayment(x) ==
    /\ pay' = [a |-> pay.b, fa |-> pay.fb, b |-> x,
               fb |-> ComputeFingerprint(x.vendor, x.amount, x.currency, x.date)]
    /\ UNCHANGED <<samp, subj>>
    /\ UNCHANGED <<ingestVars, labelVars, jobVars, archiveVars, sseVars, dec, clusterVars,
                   calendarVars, autoVars, markerVars>>

\* ==========================================================================
\* The archive marker label (app/api/jobs.py start_gmail_archive_push,
\* app/maintenance.py _push_archive_outbox)
\* ==========================================================================

\* The most pending messages of one archive push.
MaxMarkerRows == 2

MarkerMsgs == 1..MaxMarkerRows

\* candidate_label_names: GMAIL_ARCHIVED_LABEL_NAME and the fallbacks, in order.
CandidateLabelNames == <<"Email Archive", "Email-Archive", "Archive (marker)">>

\* The names the workers look up in the mailbox, in order:
\* ["Archive", "Archived", *candidate_label_names].
LookupNames == <<"Archive", "Archived">> \o CandidateLabelNames

Names(seq) == {seq[i] : i \in DOMAIN seq}

\* The first name of the sequence that is in the set, "" if none is.
FirstIn(seq, names) ==
    IF Names(seq) \cap names = {} THEN ""
    ELSE seq[CHOOSE i \in DOMAIN seq :
                 /\ seq[i] \in names
                 /\ \A j \in 1..(i - 1) : seq[j] \notin names]

IdleMarker ==
    [pc |-> "idle", name |-> "", todo |-> {}, adds |-> [m \in MarkerMsgs |-> <<>>]]

\* A label of the mailbox is created outside the service (in the mail
\* client, or by an earlier version of the service).
MailboxLabelCreated(name) ==
    /\ marker.pc \in {"idle", "done", "raised"}
    /\ name \notin mailbox
    /\ mailbox' = mailbox \cup {name}
    /\ UNCHANGED marker
    /\ UNCHANGED <<ingestVars, labelVars, jobVars, archiveVars, sseVars, dec, clusterVars,
                   calendarVars, autoVars, utilVars>>

\* The worker starts with the pending messages rows: label_name_to_id, the
\* lookup of the names in order, and, when none exists, create_label for
\* the candidates in order until one succeeds (creatable: the names the
\* provider accepts); no label at all raises RuntimeError.
MarkerResolve(rows, creatable) ==
    /\ marker.pc \in {"idle", "done", "raised"}
    /\ LET found == FirstIn(LookupNames, mailbox)
           created == FirstIn(CandidateLabelNames, creatable)
       IN IF found # "" THEN
              /\ marker' = [IdleMarker EXCEPT !.pc = IF rows = {} THEN "done" ELSE "push",
                                              !.name = found, !.todo = rows]
              /\ mailbox' = mailbox
          ELSE IF created # "" THEN
              /\ marker' = [IdleMarker EXCEPT !.pc = IF rows = {} THEN "done" ELSE "push",
                                              !.name = created, !.todo = rows]
              /\ mailbox' = mailbox \cup {created}
          ELSE
              /\ marker' = [IdleMarker EXCEPT !.pc = "raised"]
              /\ mailbox' = mailbox
    /\ UNCHANGED <<ingestVars, labelVars, jobVars, archiveVars, sseVars, dec, clusterVars,
                   calendarVars, autoVars, utilVars>>

\* The loop body for the next pending message:
\* modify_message_labels(add_label_ids=[archived_label_id]) and the mark of
\* the row; ok is the outcome of the provider call.
MarkerAdd(ok) ==
    /\ marker.pc = "push"
    /\ LET m == CHOOSE x \in marker.todo : \A y \in marker.todo : x <= y IN
       marker' = [marker EXCEPT !.todo = @ \ {m},
                                !.adds[m] = IF ok THEN Append(@, marker.name) ELSE @,
                                !.pc = IF marker.todo = {m} THEN "done" ELSE "push"]
    /\ UNCHANGED mailbox
    /\ UNCHANGED <<ingestVars, labelVars, jobVars, archiveVars, sseVars, dec, clusterVars,
                   calendarVars, autoVars, utilVars>>

\* =====================================================================
\* Specifications
\* =====================================================================

Init ==
    /\ checkpoint = NULL
    /\ store = {}
    /\ vindex = {}
    /\ run = [p \in Runs |-> IdleRun]
    /\ email = [m \in Provider |-> Unlabelled]
    /\ tier2 = {}
    /\ assign = {}
    /\ outbox = <<>>
    /\ gmail = [m \in Provider |-> {}]
    /\ lab = [l \in Labelers |-> IdleLab]
    /\ drain = [d \in ConcurrentDrainers |-> IdleDrain]
    /\ jobs = [j \in JobIds |-> NoJob]
    /\ archived = [m \in Provider |-> FALSE]
    /\ aoutbox = <<>>
    /\ retention = [t \in TaxonomyLabels |-> NULL]
    /\ kvRetention = NULL
    /\ adrain = [a \in ArchiveWorkers |-> IdleArchive]
    /\ lastPlan = NoPlan
    /\ subscribers = {}
    /\ queues = [s \in Subscribers |-> <<>>]
    /\ lock = "none"
    /\ subLock = "none"
    /\ pub = IdlePub
    /\ sub = [s \in Subscribers |-> IdleSub]
    /\ dec = IdleDecision
    /\ clusters = {}
    /\ settings = [threshold |-> SimilarityThreshold, version |-> LabelVersion]
    /\ calendar = {}
    /\ eventRow = [m \in CalMsgs |-> [uid |-> "", event |-> 0, published |-> FALSE]]
    /\ req = [p \in Publishers |-> IdleReq]
    /\ auto = NoChoice
    /\ maint = IdleMaint
    /\ samp = NoSample
    /\ subj = NoSubject
    /\ pay = NoPayments
    /\ mailbox = {}
    /\ marker = IdleMarker

\* One ingestion worker: every kind of run, every failure, crashes, re-runs.
NextIngest ==
    \/ StartIngestFull("r1")
    \/ StartIngestRefresh("r1")
    \/ \E max \in Caps : StartIncrementalRun("r1", max)
    \/ \E cutoff \in Cutoffs : StartMaintenance("r1", cutoff)
    \/ IngestBegin("r1")
    \/ \E m \in Provider, o \in {"fetch_fail", "vector_fail", "ok"} : IngestMessage("r1", m, o)
    \/ \E ok \in BOOLEAN : IngestAdvance("r1", ok)
    \/ IngestFinish("r1")
    \/ IngestCrash("r1")

SpecIngest == Init /\ [][NextIngest]_vars

\* One worker ingesting from Gmail, every iteration going the way
\* metadata_to_domain lets it go.
NextIngestGmail ==
    \/ StartIngestFull("r1")
    \/ StartIngestRefresh("r1")
    \/ \E max \in Caps : StartIncrementalRun("r1", max)
    \/ \E cutoff \in Cutoffs : StartMaintenance("r1", cutoff)
    \/ IngestBegin("r1")
    \/ \E m \in Provider, o \in IterationOutcomes : IngestMessage("r1", m, o)
    \/ IngestFinish("r1")
    \/ IngestCrash("r1")

SpecIngestGmail == Init /\ [][NextIngestGmail]_vars

\* Two refresh runs at the same time (two job threads, or a job and the
\* maintenance script).
NextIngestRace ==
    \E p \in Runs :
        \/ StartIngestRefresh(p)
        \/ IngestBegin(p)
        \/ \E m \in Provider, o \in {"fetch_fail", "ok"} : IngestMessage(p, m, o)
        \/ IngestAdvance(p, TRUE)
        \/ IngestFinish(p)

SpecIngestRace == Init /\ [][NextIngestRace]_vars

\* Two labeling workers, each a cluster engine or a per-message labeler,
\* while messages are ingested; workers may die and be re-run.
NextLabel ==
    \/ \E m \in LMsgs : EmailIngested(m)
    \/ \E l \in Labelers :
        \/ StartClusterLabel(l)
        \/ StartLabelIndividual(l)
        \/ \E g \in SUBSET LMsgs : LabelFetch(l, g)
        \/ \E res \in LabelResults : LabelCall(l, res)
        \/ LabelFail(l)
        \/ LabelUpdate(l)
        \/ AssignExec(l)
        \/ AssignCommit(l)
        \/ LabelCrash(l)

SpecLabel == Init /\ [][NextLabel]_vars

\* The steps of a per-message labeling worker.
IndividualStep(l) ==
    \/ StartLabelIndividual(l)
    \/ \E g \in SUBSET LMsgs : LabelFetch(l, g)
    \/ \E res \in LabelResults : LabelCall(l, res)
    \/ LabelFail(l)
    \/ LabelUpdate(l)
    \/ AssignExec(l)
    \/ AssignCommit(l)

\* Per-message labelers and taxonomy merges: the writers of assignments
\* and of outbox rows.
NextAssign ==
    \/ \E m \in LMsgs : EmailIngested(m)
    \/ \E l \in Labelers : IndividualStep(l)
    \/ \E s, t \in LabelResults, e \in BOOLEAN : MergeTaxonomyLabels(s, t, e)

SpecAssign == Init /\ [][NextAssign]_vars

\* Per-message labelers racing on the oldest message, and the label-push
\* drain, re-run at will.
NextDrain ==
    \/ EmailIngested(1)
    \/ \E l \in Labelers : IndividualStep(l)
    \/ \E d \in Drainers :
        \/ StartPushOutbox(d)
        \/ StartPushIncremental(d)
        \/ DrainFetch(d)
        \/ \E mp \in SUBSET LabelResults : DrainRead(d, mp)
        \/ \E o \in PushOutcomes : DrainPush(d, o)
        \/ \E o \in PushOutcomes : DrainRetry(d, o)

SpecDrain == Init /\ [][NextDrain]_vars

\* Per-message labelers that may die at any step and be re-run.
NextResume ==
    \/ \E m \in LMsgs : EmailIngested(m)
    \/ \E l \in Labelers : IndividualStep(l) \/ LabelCrash(l)

SpecResume == Init /\ [][NextResume]_vars

\* One labeling worker, run with a cap or without one, scheduled fairly:
\* a worker thread that can take a step eventually takes it. What the
\* language model answers is not constrained.
LabelRunStep(l) ==
    \/ StartClusterLabel(l)
    \/ StartLabelIndividual(l)
    \/ \E max \in LabelCaps : StartLabelCapped(l, max)
    \/ \E g \in SUBSET LMsgs : LabelFetch(l, g)
    \/ \E res \in LabelResults : LabelCall(l, res)
    \/ LabelFail(l)
    \/ LabelUpdate(l)
    \/ AssignExec(l)
    \/ AssignCommit(l)

NextLabelRun ==
    \/ \E m \in LMsgs : EmailIngested(m)
    \/ LabelRunStep("l1")

SpecLabelRun == Init /\ [][NextLabelRun]_vars /\ WF_vars(LabelRunStep("l1"))

\* Retention: a per-message labeler and the cluster engine label the
\* messages with one Tier-2 label, retention is configured on that label, on
\* its parent and as the default, planning runs with and without max_rows,
\* and one archive worker drains, dies and is re-run.
NextArchive ==
    \/ \E m \in LMsgs : EmailIngested(m)
    \/ StartLabelIndividual("l1")
    \/ StartClusterLabel("l1")
    \/ \E g \in SUBSET LMsgs : LabelFetch("l1", g)
    \/ LabelCall("l1", <<"Financial", "Utility Bills">>)
    \/ LabelUpdate("l1")
    \/ AssignExec("l1")
    \/ AssignCommit("l1")
    \/ \E t \in {<<"Financial", NoSub>>, <<"Financial", "Utility Bills">>},
          days \in RetentionChoices : SetRetentionDays(t, days)
    \/ \E days \in DefaultChoices : SetRetentionDefaultDays(days)
    \/ \E now \in PlanTimes : PlanArchiveOutbox(now)
    \/ \E now \in PlanTimes : RetentionPlanCapped(now, MaxRows)
    \/ \E a \in ArchiveWorkers :
        \/ StartArchivePush(a)
        \/ ArchiveFetch(a)
        \/ \E o \in PushOutcomes, dbok \in BOOLEAN : ArchivePush(a, o, dbok)
        \/ \E o \in PushOutcomes, dbok \in BOOLEAN : ArchiveRetry(a, o, dbok)
        \/ ArchiveCrash(a)

SpecArchive == Init /\ [][NextArchive]_vars

\* The job registry: jobs of every type, started at will.
NextJobs ==
    \/ \E j \in JobIds, t \in JobTypes, n \in 0..MaxJobItems : StartJob(j, t, n)
    \/ \E j \in JobIds :
        \/ JobRunning(j)
        \/ \E ok \in BOOLEAN : JobItem(j, ok)
        \/ JobRaise(j)
        \/ JobFinish(j)
    \/ JobsLost

SpecJobs == Init /\ [][NextJobs]_vars

\* The job thread inside one status update.
PubStep == PubLock \/ PubSnapshot \/ PubPut \/ PubDrop \/ PubReput \/ PubUnlock

\* A client's request up to its read loop, and its disconnect.
SubStep(s) ==
    \/ SubConnect(s)
    \/ SubLookup(s)
    \/ SubSubscribeLock(s)
    \/ SubSubscribe(s)
    \/ SubSnapshotLock(s)
    \/ SubSnapshot(s)
    \/ SubClose(s)
    \/ SubUnsubscribe(s)

\* A client that connects before the job's first update and then stalls:
\* it neither reads nor comes back once the job runs. What it has entered
\* it leaves at any time.
StalledStep(s) ==
    \/ /\ jobs[SseJob].state = "queued"
       /\ \/ SubConnect(s)
          \/ SubSubscribeLock(s)
          \/ SubSnapshotLock(s)
          \/ SubClose(s)
    \/ SubLookup(s)
    \/ SubSubscribe(s)
    \/ SubSnapshot(s)
    \/ SubUnsubscribe(s)

\* One streamed job: its thread's updates; a client that connects, reads (or
\* does not) and goes away at any time; and a stalled client.
NextSse ==
    \/ StartJob(SseJob, "ingest_full", SseItems)
    \/ \E kind \in {"running", "item", "raise", "finish"} : PubCall(kind)
    \/ PubStep
    \/ SubStep("s1")
    \/ SubRead("s1")
    \/ StalledStep("s2")

SpecSse == Init /\ [][NextSse]_vars

\* A thread inside `with _lock:` or `with _sub_lock:` leaves it.
ReleaseLock(s) == SubLookup(s) \/ SubSubscribe(s) \/ SubSnapshot(s) \/ SubUnsubscribe(s)

\* The same with scheduling: every thread that can run does; a thread that
\* waits for a lock gets it when the lock is free again and again; and the
\* first client keeps reading its stream for as long as it is connected.
SpecSseFair ==
    /\ SpecSse
    /\ SF_vars(PubLock)
    /\ SF_vars(PubSnapshot)
    /\ WF_vars(PubPut \/ PubDrop \/ PubReput \/ PubUnlock)
    /\ \A s \in Subscribers : WF_vars(ReleaseLock(s))
    /\ SF_vars(SubSnapshotLock("s1"))
    /\ WF_vars(SubRead("s1"))

\* A labeling run whose every label is decided by OllamaLabeler.label from
\* the model's responses.
DecidedStep(l) ==
    \/ StartClusterLabel(l)
    \/ StartLabelIndividual(l)
    \/ (dec.pc = "idle" /\ \E g \in SUBSET LMsgs : LabelFetch(l, g))
    \/ \E raw \in Responses : ModelCall(l, raw)
    \/ ModelFail(l)
    \/ DecisionParse
    \/ (dec.pc = "done" /\ LabelCall(l, PipelineResult(dec.result)))
    \/ (dec.pc = "raised" /\ LabelFail(l))
    \/ DecisionEnd(l)
    \/ LabelUpdate(l)
    \/ AssignExec(l)
    \/ AssignCommit(l)

NextLabeler ==
    \/ \E m \in LMsgs : EmailIngested(m)
    \/ DecidedStep("l1")

SpecLabeler == Init /\ [][NextLabeler]_vars

\* Labeling runs of one worker, between which the settings may change; a
\* run of the cluster engine ends when the model call raises.
NextCluster ==
    \/ \E m \in LMsgs : EmailIngested(m)
    \/ StartClusterLabel("l1")
    \/ StartLabelIndividual("l1")
    \/ \E g \in SUBSET LMsgs : LabelFetch("l1", g)
    \/ \E res \in LabelResults : LabelCall("l1", res)
    \/ LabelFail("l1")
    \/ LabelUpdate("l1")
    \/ AssignExec("l1")
    \/ AssignCommit("l1")
    \/ \E th \in Thresholds, ver \in LabelVersions : Reconfigure(th, ver)

SpecCluster == Init /\ [][NextCluster]_vars

\* Publish requests for the modelled messages, served by the threads of the
\* API's pool: any number one after another, two at a time.
PublishStep(p) ==
    \/ \E m \in CalMsgs : PublishBegin(p, m)
    \/ PublishList(p)
    \/ PublishExisting(p)
    \/ PublishInsert(p)
    \/ PublishFail(p)
    \/ PublishRecord(p)

NextCalendar == \E p \in Publishers : PublishStep(p)

SpecCalendar == Init /\ [][NextCalendar]_vars


\* An auto-label job or a maintenance run, one at a time, with ingestion of
\* further messages and the steps of the labeling run they start.
NextMaintenance ==
    \/ \E m \in LMsgs : EmailIngested(m)
    \/ \E th \in AutoThresholds : StartLabelAuto("l1", th)
    \/ \E given \in BOOLEAN, th \in AutoThresholds, c \in MaintCutoffs : MaintBegin(given, th, c)
    \/ \E new \in SUBSET LMsgs : MaintIngest(new)
    \/ MaintLabel("l1")
    \/ \E step \in StepsAfterLabel : MaintStep(step)
    \/ \E g \in SUBSET LMsgs : LabelFetch("l1", g)
    \/ \E res \in LabelResults : LabelCall("l1", res)
    \/ LabelFail("l1")
    \/ LabelUpdate("l1")
    \/ AssignExec("l1")
    \/ AssignCommit("l1")

SpecMaintenance == Init /\ [][NextMaintenance]_vars


\* Clusters of every modelled size are sampled and subjects are normalized.
NextHelpers ==
    \/ \E size \in 1..MaxClusterSize : SampleBodies(size)
    \/ \E chain \in PrefixChains, bare \in BareSubjects : NormalizeSubjects(chain, bare)

SpecHelpers == Init /\ [][NextHelpers]_vars

\* Payments are extracted one after another.
NextPayment == \E x \in Extractions : ExtractPayment(x)

SpecPayment == Init /\ [][NextPayment]_vars


\* Archive pushes one after another on a mailbox whose labels change between them.
NextMarker ==
    \/ \E name \in Names(LookupNames) : MailboxLabelCreated(name)
    \/ \E rows \in SUBSET MarkerMsgs, creatable \in SUBSET Names(CandidateLabelNames) :
           MarkerResolve(rows, creatable)
    \/ \E ok \in BOOLEAN : MarkerAdd(ok)

SpecMarker == Init /\ [][NextMarker]_vars


\* Two label-push drains at the same time as one per-message labeler, in a
\* mailbox whose labels are all mapped to provider labels.
NextDrainRace ==
    \/ EmailIngested(1)
    \/ IndividualStep("l1")
    \/ \E d \in ConcurrentDrainers :
        \/ StartPushOutbox(d)
        \/ DrainFetch(d)
        \/ \E mp \in (SUBSET LabelResults) \ {{}} : DrainRead(d, mp)
        \/ \E o \in {"ok", "error", "http503"} : DrainPush(d, o)
        \/ \E o \in {"ok", "error"} : DrainRetry(d, o)

SpecDrainRace == Init /\ [][NextDrainRace]_vars


\* Two answers of the labeler whose names differ in punctuation only, and
\* one without a Tier-2 name.
Tier2Variants ==
    {<<"Financial", "Utility Bills">>, <<"Financial", "Utility-Bills">>,
     <<"Financial", NoSub>>}

\* One per-message labeler that is given such answers.
NextTier2 ==
    \/ \E m \in LMsgs : EmailIngested(m)
    \/ StartLabelIndividual("l1")
    \/ \E g \in SUBSET LMsgs : LabelFetch("l1", g)
    \/ \E res \in Tier2Variants : LabelCall("l1", res)
    \/ LabelFail("l1")
    \/ LabelUpdate("l1")
    \/ AssignExec("l1")
    \/ AssignCommit("l1")

SpecTier2 == Init /\ [][NextTier2]_vars

Next == NextTier2 \/ NextDrainRace \/ NextMarker \/ NextPayment \/ NextHelpers \/ NextMaintenance \/ NextCalendar \/ NextCluster \/ NextLabeler \/ NextIngestGmail \/ NextSse \/ NextJobs \/ NextArchive \/ NextLabelRun \/ NextIngest \/ NextIngestRace \/ NextLabel \/ NextAssign \/ NextDrain \/ NextResume

Spec == Init /\ [][Next]_vars

\* =====================================================================
\* Properties
\* =====================================================================

\* C1: every provider message whose timestamp is at or below the stored
\* checkpoint is persisted in both the message store and the vector index.
C1_CheckpointImpliesPersisted ==
    \A m \in Provider :
        (checkpoint # NULL /\ TS(m) <= checkpoint) => (m \in store /\ m \in vindex)

\* C10: the stored checkpoint never decreases: every step that changes it
\* stores a value at or above the value stored before.
C10_CheckpointMonotone ==
    [][checkpoint # NULL => (checkpoint' # NULL /\ checkpoint' >= checkpoint)]_vars

\* A labeling worker has run the conditional UPDATE of its current iteration.
PastUpdate(l) == lab[l].result # NoResult /\ lab[l].pc # "update"

\* C2: once the category of a message is non-null, no step of a labeling
\* pass (cluster engine or per-message labeler) or of ingestion changes it.
C2_CategoryWriteOnce ==
    [][\A m \in Provider :
          email[m].category # NoCat => email'[m].category = email[m].category]_vars

\* C2 witness: a pass has run its UPDATE over a member that another pass had
\* labelled with a different category, and the member kept that category.
C2_Witness ==
    \E l \in Labelers : \E m \in lab[l].members :
        /\ PastUpdate(l)
        /\ m \in store /\ m \notin lab[l].wrote
        /\ email[m].category # NoCat
        /\ email[m].category # lab[l].result[1]

\* C3: when two passes took the same unlabelled message and both have run
\* their conditional UPDATE, exactly one of them changed the row, the other
\* updated zero rows for it, and the row carries the writer's category.
C3_FirstWriterWins ==
    \A l, k \in Labelers :
        (l # k /\ PastUpdate(l) /\ PastUpdate(k) /\ lab[l].seed = lab[k].seed) =>
            LET m == lab[l].seed IN
            /\ (m \in lab[l].wrote) # (m \in lab[k].wrote)
            /\ m \in lab[l].wrote => email[m].category = lab[l].result[1]

\* C3 witness: two passes raced on one message with different categories;
\* one wrote it and the other updated nothing.
C3_Witness ==
    \E l, k \in Labelers :
        /\ l # k /\ PastUpdate(l) /\ PastUpdate(k)
        /\ lab[l].seed = lab[k].seed
        /\ lab[l].result[1] # lab[k].result[1]
        /\ lab[l].seed \in lab[l].wrote
        /\ lab[k].wrote = {}

\* C4: every message has at most one message-to-label assignment row.
C4_SingleAssignment ==
    \A m \in Provider : Cardinality({a \in assign : a[1] = m}) <= 1

\* C5: every message has at most one label-push outbox row with
\* processed_at NULL.
C5_SinglePendingRow ==
    \A m \in Provider : Cardinality(PendingRows(m)) <= 1

\* No labeling worker is between its steps and no drain is running.
Quiescent ==
    /\ \A l \in Labelers : lab[l].pc \in {"idle", "done"}
    /\ \A d \in Drainers : drain[d].pc \in {"idle", "done"}

\* C6: once the outbox has been drained with the provider available (every
\* row processed, none with an error, nothing running), the provider
\* carries the label of every message's final assignment.
C6_DrainedOutboxDelivers ==
    (/\ Quiescent
     /\ \A i \in DOMAIN outbox : outbox[i].proc /\ ~outbox[i].err) =>
        \A m \in Provider : AssignedLabels(m) \subseteq gmail[m]

\* C7: a row that failed is retried by a re-run: when a run of the
\* label-push job ends without a failure, no row is left with an error.
C7_RerunRetriesFailedRows ==
    \A d \in Drainers :
        (drain[d].pc = "done" /\ drain[d].failed = 0) =>
            \A i \in DOMAIN outbox : ~outbox[i].err

\* C8: the labeling write is resumable: when every worker has run the
\* pipeline to its end since its last crash and no row is unlabelled, every
\* message with a category has an assignment row and has had a label-push
\* outbox row enqueued.
C8_ResumeCompletesWrite ==
    (/\ \A l \in Labelers : lab[l].pc = "done"
     /\ UnlabelledRows = {}) =>
        \A m \in store :
            email[m].category # NoCat =>
                /\ AssignedLabels(m) # {}
                /\ \E i \in DOMAIN outbox : outbox[i].msg = m

\* C9: when an iteration of the cluster engine has completed, every message
\* it labelled carries the iteration's (category, cluster_id, label_version),
\* has an assignment row for the accepted label and has exactly one
\* unprocessed label-push outbox row.
C9_ClusterIterationComplete ==
    \A l \in Labelers :
        (lab[l].mode = "cluster" /\ PastUpdate(l)) =>
            \A m \in lab[l].wrote :
                /\ email[m].category = lab[l].result[1]
                /\ email[m].cluster_id =
                       ClusterId(lab[l].seed, SimilarityThreshold, LabelVersion)
                /\ email[m].label_version = LabelVersion
                /\ <<m, TaxonomyLabelFor(lab[l].result)>> \in assign
                /\ Cardinality(PendingRows(m)) = 1

\* C11: a step of an ingestion run changes the checkpoint only to the
\* timestamp of the message it has just written to both the store and the
\* vector index; a step that counts a failure writes no checkpoint.
C11_CheckpointAfterBothUpserts ==
    [][\A p \in Runs :
          (run[p].pc \in {"loop", "advance"} /\ run'[p] # run[p]) =>
              /\ checkpoint' # checkpoint =>
                    \E m \in Provider :
                        /\ run[p].cur = m
                        /\ checkpoint' = TS(m)
                        /\ m \in store /\ m \in vindex
              /\ run'[p].failed > run[p].failed => checkpoint' = checkpoint]_vars

\* C11 witness: a run has counted a failure and has written the checkpoint
\* for a message it persisted in both stores.
C11_Witness ==
    \E p \in Runs : \E m \in Provider :
        /\ run[p].pc = "loop"
        /\ run[p].failed > 0 /\ run[p].processed > 0
        /\ run[p].adv = TS(m) /\ checkpoint = TS(m)
        /\ m \in store /\ m \in vindex
        /\ store # vindex

\* C12: for each label-push row a drain makes at most two provider calls,
\* the second only after the first failed with HTTP 429, 500, 502, 503 or
\* 504; after a second failure or any other error the row is marked
\* processed with its error and the drain moves on to the next row.
C12_AtMostOneInlineRetry ==
    [][\A d \in Drainers :
          /\ drain'[d].attempts <= 2
          /\ drain'[d].attempts = 2 => drain'[d].first \in TransientStatus
          /\ drain'[d].pc = "retry" => drain'[d].first \in TransientStatus
          /\ (/\ drain[d].pc \in {"push", "retry"}
              /\ drain'[d] # drain[d]
              /\ drain'[d].pc # "retry"
              /\ drain'[d].last # "ok") =>
                 LET i == Head(drain[d].batch) IN
                 /\ outbox'[i].proc /\ outbox'[i].err
                 /\ drain'[d].batch = Tail(drain[d].batch)
                 /\ drain'[d].pc \in {"read", "fetch", "done"}]_vars

\* C12 witness: a row was tried twice, the first call failed with a
\* transient status and the retry failed too; the row carries its error and
\* the drain has moved on.
C12_Witness ==
    \E d \in Drainers : \E i \in DOMAIN outbox :
        /\ drain[d].attempts = 2
        /\ drain[d].first \in TransientStatus
        /\ drain[d].last # "ok"
        /\ drain[d].pc \in {"read", "fetch", "done"}
        /\ outbox[i].proc /\ outbox[i].err

\* C13: a failure while handling one item never ends a labeling run: a run
\* ends only at the top of its loop, when no unlabelled message is left.
C13_ItemFailureNeverEndsRun ==
    [][\A l \in Labelers :
          (lab[l].pc \notin {"idle", "done", "aborted"} /\
           lab'[l].pc \in {"done", "aborted"}) =>
              (lab[l].pc = "fetch" /\ UnlabelledRows = {})]_vars

\* C14: a job that has finished its batch with at least one failed row is
\* failed, never succeeded, whatever its type.
C14_FailedRowsFailTheJob ==
    \A j \in JobIds :
        (jobs[j].left = 0 /\ jobs[j].failed > 0) => jobs[j].state # "succeeded"

\* C15: every labeling run terminates: a worker inside its loop eventually
\* leaves it, with a cap and without one, whatever the language model answers.
C15_LabelingRunTerminates ==
    (lab["l1"].pc \in {"fetch", "label", "update", "assign", "commit"})
        ~> (lab["l1"].pc \in {"done", "aborted"})

\* C16: per-message FIFO by created_at: a drain never has a provider call
\* under way for a row while a row of the same message with an earlier
\* created_at is still unprocessed.
C16_PerMessageFifo ==
    \A d \in Drainers :
        drain[d].pc \in {"push", "retry"} =>
            LET i == Head(drain[d].batch) IN
            \A j \in DOMAIN outbox :
                (outbox[j].msg = outbox[i].msg /\ outbox[j].at < outbox[i].at)
                    => outbox[j].proc

\* UNIQUE (message_id) on archive_push_outbox.
ArchiveUnique(rows) == \A i, j \in DOMAIN rows : rows[i].msg = rows[j].msg => i = j

\* A planning run took this step.
PlanStep == lastPlan'.tick # lastPlan.tick

\* The messages eligible when the planning run of this step executed.
EligibleAtPlan == Eligible(lastPlan'.now, GetRetentionDefaultDays(kvRetention))

\* The messages the planning run of this step upserts: every eligible one,
\* or with max_rows the first max_rows of them.
SelectedAtPlan ==
    IF lastPlan'.max = NULL THEN EligibleAtPlan
    ELSE FirstRows(EligibleAtPlan, lastPlan'.max)

\* The processed or failed rows of the messages ms are pending after the step.
ResetToPending(ms) ==
    \A i \in DOMAIN aoutbox :
        (aoutbox[i].msg \in ms /\ aoutbox[i].proc)
            => (~aoutbox'[i].proc /\ ~aoutbox'[i].err)

\* C17 as stated: no two archive-outbox rows share a message, and a planning
\* run resets to pending the processed or failed row of every message that
\* is eligible when it runs.
C17_PlanResetsEveryEligibleRow ==
    [][ArchiveUnique(aoutbox') /\ (PlanStep => ResetToPending(EligibleAtPlan))]_vars

\* C17 amended: no two archive-outbox rows share a message, and a planning
\* run resets to pending the processed or failed row of every message it
\* selects: every eligible message without max_rows, the first max_rows
\* eligible messages by id with it.
C17_PlanResetsSelectedRows ==
    [][ArchiveUnique(aoutbox') /\ (PlanStep => ResetToPending(SelectedAtPlan))]_vars

\* A planning run has reset the one row of the outbox, which the running
\* archive worker had marked failed.
C17_Witness ==
    /\ Len(aoutbox) = 1
    /\ adrain["a1"].failed = 1
    /\ ~aoutbox[1].proc /\ ~aoutbox[1].err
    /\ lastPlan # NoPlan

\* C18: an archive-outbox row that is processed without error belongs to a
\* message whose archived_at is stamped, in every reachable state, also
\* after the worker died.
C18_SucceededRowIsArchived ==
    \A i \in DOMAIN aoutbox :
        (aoutbox[i].proc /\ ~aoutbox[i].err) => archived[aoutbox[i].msg]

\* The worker's provider call succeeded, the row is processed without error
\* and the message is stamped, and the worker has died since.
C18_Witness ==
    /\ \E i \in DOMAIN aoutbox :
          /\ aoutbox[i].proc /\ ~aoutbox[i].err
          /\ archived[aoutbox[i].msg]
          /\ ArchiveMarker \in gmail[aoutbox[i].msg]
    /\ adrain["a1"].pc = "idle"

\* The label of a message: the assigned taxonomy label, else the label its
\* category and subcategory columns name.
LabelOfMessage(m) ==
    IF \E a \in assign : a[1] = m
    THEN (CHOOSE a \in assign : a[1] = m)[2]
    ELSE TaxonomyLabelFor(<<email[m].category, email[m].subcategory>>)

\* C19: a planning run without max_rows, made while no labeling run is under
\* way, leaves a labelled message pending if it is not archived and its
\* timestamp is at or before now minus COALESCE(label, parent, default), and
\* newly enqueues no other labelled message.
C19_EnqueuedIffRetentionPassed ==
    [][(PlanStep /\ lastPlan'.max = NULL
            /\ \A l \in Labelers : lab[l].pc \in {"idle", "done", "aborted"})
        => \A m \in store : email[m].category # NoCat =>
             LET due == /\ ~archived[m]
                        /\ TS(m) <= lastPlan'.now
                               - EffectiveRetention(LabelOfMessage(m),
                                                    GetRetentionDefaultDays(kvRetention))
                 pendingBefore == \E i \in DOMAIN aoutbox :
                                     aoutbox[i].msg = m /\ ~aoutbox[i].proc
                 pendingAfter == \E i \in DOMAIN aoutbox' :
                                     aoutbox'[i].msg = m /\ ~aoutbox'[i].proc
             IN /\ due => pendingAfter
                /\ (pendingAfter /\ ~pendingBefore) => due]_vars

\* C20: a job's state moves only queued -> running -> succeeded or failed
\* (a restart drops the whole registry); after a step the job is succeeded
\* exactly when its task returned and failed exactly when its task raised;
\* a succeeded or failed job keeps its state under every later update.
C20_JobStateMachine ==
    [][\A j \in JobIds :
          LET s == jobs[j].state
              t == jobs'[j].state
          IN /\ s # t =>
                  \/ <<s, t>> \in {<<"none", "queued">>, <<"queued", "running">>,
                                   <<"running", "succeeded">>, <<"running", "failed">>}
                  \/ jobs' = [k \in JobIds |-> NoJob]
             /\ (t = "succeeded") <=> (jobs'[j].outcome = "returned")
             /\ (t = "failed") <=> (jobs'[j].outcome = "raised")]_vars

\* One job has succeeded after counting a failed item, another has failed
\* by an exception out of its loop.
C20_Witness ==
    \E j, k \in JobIds :
        /\ jobs[j].state = "succeeded" /\ jobs[j].failed > 0
        /\ jobs[k].state = "failed" /\ jobs[k].left > 0

\* C21: jobs are single-flight: at most one job is in state running.
C21_SingleFlight ==
    Cardinality({j \in JobIds : jobs[j].state = "running"}) <= 1

\* The queue the broadcast loop is at.
PubQueue == Head(pub.todo)

\* C22: no subscriber queue ever holds more than 25 pending events; and a
\* broadcast that found a queue full takes that queue's oldest pending event
\* out (nothing when the reader has emptied it meanwhile) and then leaves
\* its own event as the newest of the queue, whatever the reader does in
\* between.
C22_FullQueueDropsOldest ==
    /\ [](\A s \in Subscribers : Len(queues[s]) <= QueueMaxSize)
    /\ [][/\ (pub.pc = "drop" /\ pub'.pc = "reput")
              => queues'[PubQueue] =
                    IF queues[PubQueue] = <<>> THEN <<>> ELSE Tail(queues[PubQueue])
          /\ (pub.pc = "reput" /\ pub'.pc # "reput")
              => /\ queues'[PubQueue] # <<>>
                 /\ queues'[PubQueue][Len(queues'[PubQueue])] = pub.payload
                 /\ SubSeq(queues'[PubQueue], 1, Len(queues'[PubQueue]) - 1)
                        = queues[PubQueue]]_vars

\* The broadcast found s1's queue full, the reader took an event before the
\* broadcast dropped the next one, and the retry is about to enqueue.
C22_Witness ==
    /\ pub.pc = "reput"
    /\ PubQueue = "s1"
    /\ sub["s1"].pc = "read"
    /\ Len(queues["s1"]) = QueueMaxSize - 2

\* C23: every status update the job thread starts returns: the thread
\* never stays inside _set_job / _broadcast, with a stalled subscriber whose
\* queue is full and a subscriber that connects, reads and leaves meanwhile.
C23_UpdateReturns == (pub.pc # "idle") ~> (pub.pc = "idle")

\* The broadcast is at the full queue of the stalled client while the other
\* client is inside _unsubscribe.
C23_Witness ==
    /\ pub.pc = "drop"
    /\ PubQueue = "s2"
    /\ Len(queues["s2"]) = QueueMaxSize
    /\ sub["s1"].pc = "closing"

\* The client is subscribed and its stream is open.
Streaming(s) == s \in subscribers /\ sub[s].pc \in {"connected", "snapshot", "read"}

\* The newest pending event of the client carries a terminal state.
TerminalPending(s) ==
    /\ queues[s] # <<>>
    /\ queues[s][Len(queues[s])][1] \in TerminalStates

\* C24: once the job is finished and its last update has returned, every
\* reading subscriber has been sent the terminal state or has it pending as
\* its newest event (overflow dropped older events only); and a subscriber
\* that is subscribed when the job finishes and keeps reading is eventually
\* sent the terminal state.
C24_TerminalStateDelivered ==
    /\ []((jobs[SseJob].state \in TerminalStates /\ pub.pc = "idle")
             => \A s \in subscribers :
                   sub[s].pc = "read"
                       => sub[s].got \in TerminalStates \/ TerminalPending(s))
    /\ ((jobs[SseJob].state \in TerminalStates /\ Streaming("s1"))
            ~> (sub["s1"].got \in TerminalStates \/ ~Streaming("s1")))

\* The client subscribed before the first update and has read nothing; its
\* queue overflowed, and the terminal update is its newest pending event.
C24_Witness ==
    /\ jobs[SseJob].state \in TerminalStates
    /\ pub.pc = "idle"
    /\ sub["s1"].pc = "read"
    /\ sub["s1"].got = "queued"
    /\ Len(queues["s1"]) = QueueMaxSize
    /\ TerminalPending("s1")

\* A step of worker p that changes nothing: store, vector index and
\* checkpoint stay, nothing is processed, and every message the step takes
\* off the listing is skipped (or its fetch fails).
NoOpStep(p) ==
    /\ store' = store
    /\ vindex' = vindex
    /\ checkpoint' = checkpoint
    /\ run'[p].processed = 0
    /\ run'[p].pc # "idle"
           => run'[p].skipped + run'[p].failed
                 = run[p].skipped + run[p].failed
                   + Cardinality(run[p].todo \ run'[p].todo)

C26_IngestFromScratch ==
    \A p \in Runs :
        (/\ run[p].pc = "idle"
         /\ run[p].kind \in {"full", "refresh", "incremental"}
         /\ run[p].ckpt = NULL
         /\ run[p].max = NULL)
            => /\ Cardinality(store) = 3
               /\ Cardinality(vindex) = 3
               /\ run[p].failed = 0
               /\ checkpoint # NULL
               /\ InternalDate(checkpoint) = 1700000200

\* The subcategory parsed from a response is rejected by
\* _sanitize_subcategory_name.
Rejected(raw) ==
    SanitizeSubcategoryName(ParseMultilineLabelResponse(Strip(raw))[2])[2] # "none"

\* The decision has made its second call after a rejection, with the
\* stricter instruction; after two rejections it returned the category alone.
RetryOnce ==
    /\ dec.calls <= 2
    /\ Len(dec.reasons) <= dec.calls
    /\ dec.calls = 2 =>
          /\ dec.strict
          /\ Len(dec.reasons) >= 1
          /\ dec.reasons[1] # "none"
    /\ (dec.calls = 1 /\ dec.pc = "parse") => ~dec.strict
    /\ (dec.pc = "done" /\ Len(dec.reasons) = 2 /\ dec.reasons[2] # "none") =>
          /\ dec.result[1] \in Tier1
          /\ dec.result[2] = NoSub

\* An attempt records a rejection exactly when the subcategory parsed from
\* its response is rejected, and a returned category is the parsed one.
AttemptRecorded ==
    (dec.pc = "parse" /\ dec'.pc \in {"retry", "done"}) =>
        /\ Len(dec'.reasons) = Len(dec.raws)
        /\ Rejected(dec.raw) <=> dec'.reasons[Len(dec'.reasons)] # "none"
        /\ dec'.pc = "done" => dec'.result[1] = ParseMultilineLabelResponse(dec.raw)[1]

\* C27: one labeling decision calls the model at most twice; the second
\* call is made with the stricter instruction and only after the subcategory
\* of the first response was rejected; when the second response is rejected
\* too, the decision returns the Tier-1 category with no subcategory.
C27_RetryOnceThenTier1Only == []RetryOnce /\ [][AttemptRecorded]_vars

\* Both responses of a decision were rejected and the decision has returned.
C27_Witness ==
    /\ dec.pc = "done"
    /\ dec.calls = 2
    /\ Len(dec.raws) = 2
    /\ Rejected(dec.raws[1])
    /\ Rejected(dec.raws[2])
    /\ dec.result = <<"Financial", NoSub>>

\* The name begins with one of the meta prefixes ("Note:", "Reason:", ...),
\* whatever its case.
BeginsWithMetaPrefix(name) ==
    \E p \in ForbiddenSubcategoryPrefixes : StartsWith(Casefold(name), p)

\* Every Tier-2 label of the taxonomy store has a usable name.
TaxonomyNamesClean ==
    \A t \in tier2 :
        /\ t[1] \in Tier1
        /\ t[2] # ""
        /\ t[2] # NoSub
        /\ ~Contains(t[2], "\n")
        /\ Len(t[2]) <= MaxTier2NameLen
        /\ ~BeginsWithMetaPrefix(t[2])

\* The malformed answer of the spec's scenario.
NoteResponse == "Financial\nNote: chosen categories match"

\* The iteration whose decision got the malformed answer twice stores
\* Financial with no subcategory on every row it labels and adds nothing to
\* the taxonomy.
NotePersistedAsTier1Only ==
    (lab["l1"].pc = "update" /\ lab'["l1"].pc # "update"
        /\ dec.raws = <<NoteResponse, NoteResponse>>) =>
        /\ tier2' = tier2
        /\ \A m \in lab'["l1"].wrote :
              /\ email'[m].category = "Financial"
              /\ email'[m].subcategory = NoSub

\* C28: no labeling run inserts a Tier-2 label whose name is empty,
\* multi-line, longer than 80 characters or begins with a meta prefix such
\* as "Note:"; and when the model answers "Financial" followed by the line
\* "Note: chosen categories match" on both attempts, the message is stored
\* with category Financial and no subcategory.
C28_NoMetaTextInTaxonomy == []TaxonomyNamesClean /\ [][NotePersistedAsTier1Only]_vars

\* The taxonomy holds a label a run inserted, and an iteration whose two
\* answers were the malformed one has labelled a message Financial.
C28_Witness ==
    /\ tier2 # {}
    /\ dec.pc = "done"
    /\ dec.raws = <<NoteResponse, NoteResponse>>
    /\ lab["l1"].pc \notin {"label", "update"}
    /\ lab["l1"].wrote # {}
    /\ \A m \in lab["l1"].wrote :
          email[m].category = "Financial" /\ email[m].subcategory = NoSub

\* A labeling iteration ends: a cluster row with the id computed from the
\* seed and the settings exists, and every message the iteration labelled
\* carries that id.
ClusterRowAfterIteration ==
    (lab["l1"].pc = "update" /\ lab'["l1"].pc # "update") =>
        LET cid == ClusterId(lab["l1"].seed, settings.threshold, settings.version) IN
        /\ \E c \in clusters' : c.id = cid
        /\ \A m \in lab'["l1"].wrote : email'[m].cluster_id = cid

\* C29: the cluster id is a function of (seed id, threshold, labeler
\* version) and re-runs upsert: after a labeling iteration for a seed a
\* cluster row with the computed id exists and every message labelled in the
\* iteration carries that id, whatever rows earlier runs for the seed left
\* behind.
C29_ClusterRowExists == [][ClusterRowAfterIteration]_vars

C31_ModeFollowsThreshold ==
    (auto.by # "none" /\ auto.total > 0) =>
        /\ auto.mode \in {"individual", "cluster"}
        /\ auto.mode = "individual" <=> auto.total < auto.threshold

\* C39: a maintenance run performs the documented steps in the documented
\* order, and a run that ended after its ingest step, with or without
\* unlabelled messages after that step, performed every step.
C39_RunPerformsEveryStep ==
    /\ \E n \in 0..Len(MaintenanceSteps) : maint.steps = SubSeq(MaintenanceSteps, 1, n)
    /\ (maint.pc \in {"done", "raised"} /\ maint.steps # <<>>) =>
           maint.steps = MaintenanceSteps

\* C32 (as stated): the number of messages sampled for bodies is 1 for a
\* cluster of size at most 5, 2 for sizes 6 to 10, 3 for sizes 11 to 50 and
\* 4 for sizes above 50.
C32_SampleCountClosedRanges ==
    samp.size > 0 =>
        samp.count = (IF samp.size <= 5 THEN 1
                      ELSE IF samp.size <= 10 THEN 2
                      ELSE IF samp.size <= 50 THEN 3
                      ELSE 4)

\* C32 (amended): the number of messages sampled for bodies is 1 for a
\* cluster of size below 5, 2 for sizes 5 to 9, 3 for sizes 10 to 50 and 4
\* for sizes above 50.
C32_SampleCountBySize ==
    samp.size > 0 =>
        samp.count = (IF samp.size < 5 THEN 1
                      ELSE IF samp.size < 10 THEN 2
                      ELSE IF samp.size <= 50 THEN 3
                      ELSE 4)

\* A cluster of size 5 or 10 was sampled.
C32_Witness == samp.size \in {5, 10} /\ samp.count \in {2, 3}

\* C33: a subject preceded by any chain of leading reply/forward prefixes
\* normalizes to the same value as the bare subject, as in
\* normalize("Re: Fwd: Hello") == normalize("hello").
C33_PrefixChainNormalizesToBare == subj.out = subj.outBare

\* C34 (as stated): equal (vendor, amount, currency, date) inputs produce
\* equal fingerprints, and two inputs that differ in one of vendor, amount,
\* currency or date produce different fingerprints.
C34_AnyChangeChangesFingerprint ==
    /\ pay.a = pay.b => pay.fa = pay.fb
    /\ (pay.fa # "" /\ pay.fb # "" /\ pay.a # pay.b) => pay.fa # pay.fb

\* C34 (amended): equal inputs produce equal fingerprints, and two inputs
\* that have a fingerprint have the same one exactly when their vendor keys,
\* their amounts rounded to cents, their currencies and their dates are equal.
C34_FingerprintDiscriminates ==
    /\ pay.a = pay.b => pay.fa = pay.fb
    /\ (pay.fa # "" /\ pay.fb # "") =>
           (pay.fa = pay.fb <=>
               /\ NormalizeVendorKey(pay.a.vendor) = NormalizeVendorKey(pay.b.vendor)
               /\ QuantizeCents(pay.a.amount) = QuantizeCents(pay.b.amount)
               /\ pay.a.currency = pay.b.currency
               /\ pay.a.date = pay.b.date)

\* Two extractions that differ in the spelling of the vendor and in the
\* amount below a cent have the fingerprint acmeltd|12.34|GBP|2025-03-02.
C34_Witness ==
    /\ pay.a.vendor = "Acme Ltd" /\ pay.b.vendor = "acme ltd."
    /\ pay.a.amount = 12340 /\ pay.b.amount = 12345
    /\ pay.fa = "acmeltd|12.34|GBP|2025-03-02"
    /\ pay.fb = pay.fa

\* C35: every label the archive worker adds to a message is the configured
\* marker "Email Archive" or one of the configured fallback names and
\* never a label named "Archive" or "Archived"; a message is given the
\* label at most once by a push.
C35_WorkerAddsConfiguredMarker ==
    \A m \in MarkerMsgs :
        /\ Len(marker.adds[m]) <= 1
        /\ \A i \in DOMAIN marker.adds[m] :
               /\ marker.adds[m][i] \in Names(CandidateLabelNames)
               /\ marker.adds[m][i] \notin {"Archive", "Archived"}

\* C36: with two label-push drains at the same time each unprocessed outbox
\* row is handled by exactly one of them: no drain calls the provider for a
\* row that a drain has already processed, and the status a drain recorded
\* for a row is not written again.
C36_RowHandledByOneDrain ==
    [][/\ \A d \in ConcurrentDrainers :
              (drain[d].pc = "push" /\ drain'[d] # drain[d]) =>
                  ~outbox[Head(drain[d].batch)].proc
       /\ \A i \in DOMAIN outbox :
              outbox[i].proc => (i \in DOMAIN outbox' /\ outbox'[i] = outbox[i])]_vars

\* C37: the job states a subscriber is sent are in the order the job
\* produced them: after a terminal state (in the initial snapshot or in an
\* update) its stream never carries a state that is not terminal.
C37_NoRunningAfterTerminal ==
    [][\A s \in Subscribers :
           (sub[s].pc = "read" /\ sub'[s].pc = "read" /\ sub[s].got \in TerminalStates)
               => sub'[s].got \in TerminalStates]_vars

\* C38: whenever labeling has persisted a subcategory on a message, a Tier-2
\* label with that name exists under the message's category, and once the
\* message's assignment is committed it points at that Tier-2 label; also
\* for two names that differ only in case or punctuation.
C38_SubcategoryHasTier2Label ==
    \A m \in store :
        email[m].subcategory # NoSub =>
            /\ <<email[m].category, email[m].subcategory>> \in tier2
            /\ (\A l \in Labelers :
                    ~(lab[l].seed = m /\ lab[l].pc \in {"assign", "commit"}))
                   => <<m, <<email[m].category, email[m].subcategory>>>> \in assign
====
